---- MODULE Spec2Model ----
(***************************************************************************)
(* Model of unitycloudbuild (src/commands.go, src/unity-cb-tool/main.go):  *)
(* the completion monitor Builds_WaitForComplete with the status resolver  *)
(* it calls (Builds_Status, Builds_Latest) and the response classifier     *)
(* doRequest; the artifact retriever Builds_Download; Builds_Latest step   *)
(* by step; the revision matcher Git_BuildsMatchHead; Builds_List and      *)
(* Builds_Cancel; and the exit code of the command line tool.              *)
(*                                                                         *)
(* Each operation has its own specification: Spec (the monitor, cut off    *)
(* after MaxTicks ticks), SpecCollect (its collection phase, with the map  *)
(* of latest builds on record), SpecLive (its poll loop without cut-off,   *)
(* under weak fairness and a service that lets every build finish),        *)
(* SpecDownload, SpecLatest, SpecGit, SpecCall (Builds_List and            *)
(* Builds_Cancel) and SpecCli (one run of the tool).  One behaviour is one *)
(* call of the operation, and the variables of the other operations stay   *)
(* at their idle values.  The remote service and the local system are the  *)
(* environment: every answer they give is chosen nondeterministically.  A  *)
(* 200 answer to a status request carries the record of the build that was *)
(* asked for (same target id and number) in any status.  Verbose logging   *)
(* (log.Print) and the output of the quiet sub-calls are left out: they    *)
(* change no state.                                                        *)
(***************************************************************************)
EXTENDS Integers, Sequences, FiniteSets, TLC

\* ------------------------------------------------------------------ bounds
NumTargets == 2          \* build targets configured on the service
MaxTicks == 2            \* poll ticks explored before the model stops
MaxNumber == 2           \* build numbers are 1..MaxNumber
MaxDelays == 1           \* answers that delay the end of the unbounded poll loop

\* ----------------------------------------------------------- value domains
OutputFormat_None == 0
OutputFormat_JSON == 1
OutputFormat_Human == 2
OutputFormats == {OutputFormat_None, OutputFormat_JSON, OutputFormat_Human}

TargetIds == 1..NumTargets
Numbers == 1..MaxNumber

\* The eight statuses of the service, the empty string and a string the
\* client does not know.
Statuses == {"queued", "sentToBuilder", "started", "restarted",
             "success", "failure", "canceled", "unknown", "", "archived"}

\* The statuses the service reports while several builds are watched at once
\* (a single watched build is reported in every status of Statuses).
BatchStatuses == {"queued", "started", "success", "failure", "canceled"}

\* A Build snapshot: the fields Builds_WaitForComplete reads.
Build(t, n, s) == [TargetId |-> t, Number |-> n, Status |-> s]

\* Zero value of the Go struct (var build Build).
ZeroBuild == Build(0, 0, "")

\* Go's nil *Build.
NilBuild == [TargetId |-> 0, Number |-> -1, Status |-> "<nil>"]

\* Identity key of a build, derived from (target identifier, build number).
UniqueId(b) == <<b.TargetId, b.Number>>

\* ------------------------------------------------------------------ errors
NoError == [kind |-> "nil", code |-> 0, target |-> 0, number |-> 0, status |-> ""]
Err(k) == [kind |-> k, code |-> 0, target |-> 0, number |-> 0, status |-> ""]
BuildErr(k, b, s) ==
    [kind |-> k, code |-> 0, target |-> b.TargetId, number |-> b.Number, status |-> s]

RateLimitedError == Err("RateLimited")
ResourceNotFoundError == Err("ResourceNotFound")
TransportError == Err("Transport")
HttpError(c) == [kind |-> "HTTP", code |-> c, target |-> 0, number |-> 0, status |-> ""]
\* log.Fatal: the process exits inside the call, nothing is returned.
FatalExit == Err("log.Fatal")

\* ----------------------------------------------------------- IsBuildActive
\* Mutant: "unknown" taken for an active status.
IsBuildActive_unknownActive(b) == b.Status \notin {"success", "failure", "canceled"}

IsBuildActive(b) == b.Status \notin {"success", "failure", "canceled", "unknown"}

\* ---------------------------------------------------------------- doRequest
\* What the remote service (or the network) answers to one request.
\*   neterr : client.Do or the body read failed
\*   code   : the HTTP status code
\*   decodes: the body unmarshals into the caller's result
\*   build  : the build record the body carries
HttpCodes == {200, 429, 404, 500}

StatusResponses(b, statuses) ==
    [neterr : {FALSE}, code : {200}, decodes : {TRUE},
     build : {Build(b.TargetId, b.Number, s) : s \in statuses}]
    \cup [neterr : {FALSE}, code : {200}, decodes : {FALSE}, build : {ZeroBuild}]
    \cup [neterr : {FALSE}, code : HttpCodes \ {200}, decodes : {FALSE}, build : {ZeroBuild}]
    \cup [neterr : {TRUE}, code : {0}, decodes : {FALSE}, build : {ZeroBuild}]

\* Mutant: a 404 answer is passed over like a 204.
doRequest_notFoundOk(r, zero) ==
    IF r.neterr THEN [err |-> TransportError, result |-> zero]
    ELSE CASE r.code = 429 -> [err |-> RateLimitedError, result |-> zero]
           [] r.code \in {200, 202} ->
                IF r.decodes THEN [err |-> NoError, result |-> r.build]
                ELSE [err |-> FatalExit, result |-> zero]
           [] r.code \in {204, 404} -> [err |-> NoError, result |-> zero]
           [] OTHER -> [err |-> HttpError(r.code), result |-> zero]

\* doRequest with a non-nil result: the error it returns and the value left
\* in the caller's result variable (zero is its value before the call).
doRequest(r, zero) ==
    IF r.neterr THEN [err |-> TransportError, result |-> zero]
    ELSE CASE r.code = 429 -> [err |-> RateLimitedError, result |-> zero]
           [] r.code \in {200, 202} ->
                IF r.decodes THEN [err |-> NoError, result |-> r.build]
                ELSE [err |-> FatalExit, result |-> zero]
           [] r.code = 204 -> [err |-> NoError, result |-> zero]
           [] r.code = 404 -> [err |-> ResourceNotFoundError, result |-> zero]
           [] OTHER -> [err |-> HttpError(r.code), result |-> zero]

\* Builds_Status: (nil, err) on error, else the decoded build.
Builds_Status(r) ==
    LET d == doRequest(r, ZeroBuild)
    IN  IF d.err # NoError THEN [err |-> d.err, build |-> NilBuild]
        ELSE [err |-> NoError, build |-> d.result]

\* ------------------------------------------------------------------- state
VARIABLES
    outputFormat,        \* context.OutputFormat
    all,                 \* argument all
    abortOnFail,         \* argument abortOnFail
    buildTargetId,       \* argument buildTargetId
    buildNumber,         \* argument buildNumber
    pc,                  \* "start", "wait" (in time.After), "poll" (in the
                         \* range loop), "done" (returned), "exit" (log.Fatal)
    builds,              \* the watch set, a slice of Build snapshots
    finishedBuilds,      \* map UniqueId -> bool
    lastBuildStatus,     \* map UniqueId -> status
    finishedBuildsCount,
    i,                   \* index of the range loop (1-based)
    result,              \* the error returned (NoError for nil)
    resp,                \* error of the most recent poll-loop status fetch
    out,                 \* lines printed by the most recent step
    ticks,               \* poll ticks started
    fetches,             \* status fetches issued inside the poll loop
    fetched,             \* indices fetched in the current tick
    notified,            \* "status changed" lines printed so far
    rateLimited          \* poll-loop fetches answered 429 so far

vars == <<outputFormat, all, abortOnFail, buildTargetId, buildNumber, pc,
          builds, finishedBuilds, lastBuildStatus, finishedBuildsCount, i,
          result, resp, out, ticks, fetches, fetched, notified, rateLimited>>

args == <<outputFormat, all, abortOnFail, buildTargetId, buildNumber>>

\* State of one call of Builds_Download.
VARIABLES
    dlPc,                \* "idle", "start", "resolved", "checked", "named",
                         \* "created", "downloaded", "synced", "extract",
                         \* "returning" (deferred calls run), "returned",
                         \* "exit" (log.Fatal), "panic"
    dlIn,                \* the arguments, the GOOS of the build and what
                         \* os.Stat finds at the output directory
    dlBuild,             \* the build record resolved
    dlDir,               \* outputDir after line 773-775
    dlFilename,          \* filename (line 790-793)
    dlFile,              \* file.Name(), the path written to
    files,               \* the local files that exist
    handles,             \* the open handles on dlFile
    defers,              \* the deferred calls, last one last
    dlXfer,              \* outcome of grabHttpFile
    dlTransfers,         \* calls of grabHttpFile
    dlEntries,           \* the entries of the archive
    dlEntry,             \* index of the extraction loop
    dlResult             \* the error returned

dlVars == <<dlPc, dlIn, dlBuild, dlDir, dlFilename, dlFile, files, handles, defers,
            dlXfer, dlTransfers, dlEntries, dlEntry, dlResult>>

\* State of one call of Builds_Latest.
VARIABLES
    ltPc,                \* "idle", "start", "pass1", "pass2", "returned",
                         \* "exit" (log.Fatal)
    ltIn,                \* the arguments onlySuccess and onlyEnabled
    ltTargets,           \* targets, as decoded from the answer
    ltBuilds,            \* builds, the map under construction
    ltIdx,               \* index of the range loop (1-based)
    ltRequested,         \* target ids a history request was issued for
    ltHistory,           \* target id -> entries the history request returned
    ltRet                \* the values returned

ltVars == <<ltPc, ltIn, ltTargets, ltBuilds, ltIdx, ltRequested, ltHistory, ltRet>>

\* Builds_Latest is not running.
LtIdle ==
    /\ ltPc = "idle"
    /\ ltIn = <<>>
    /\ ltTargets = <<>>
    /\ ltBuilds = <<>>
    /\ ltIdx = 0
    /\ ltRequested = {}
    /\ ltHistory = <<>>
    /\ ltRet = <<>>

\* State of one call of Git_BuildsMatchHead.
VARIABLES
    gitPc,               \* "idle", "start", "collect", "missing", "builds",
                         \* "returned", "exit" (log.Fatal), "panic"
    gitIn,               \* context.OutputFormat and the arguments
    gitHead,             \* commit.Revision
    gitBuilds,           \* builds
    gitMissing,          \* missingBuilds
    gitIdx,              \* index of the range loop under way (1-based)
    allMatch,
    gitExamined,         \* rounds of the two loops carried out so far
    gitOut,              \* the lines printed
    gitRet               \* the values returned

gitVars == <<gitPc, gitIn, gitHead, gitBuilds, gitMissing, gitIdx, allMatch, gitExamined,
             gitOut, gitRet>>

\* Git_BuildsMatchHead is not running.
GitIdle ==
    /\ gitPc = "idle"
    /\ gitIn = <<>>
    /\ gitHead = <<>>
    /\ gitBuilds = <<>>
    /\ gitMissing = <<>>
    /\ gitIdx = 0
    /\ allMatch = TRUE
    /\ gitExamined = 0
    /\ gitOut = <<>>
    /\ gitRet = <<>>

\* The collection phase of Builds_WaitForComplete seen from outside: whether
\* Builds_Latest returned a map to it, and the map.
VARIABLES latestBuilds

NoLatestBuilds == [known |-> FALSE, map |-> <<>>]

\* One call of Builds_List or Builds_Cancel, step by step.
VARIABLES
    callPc,              \* "idle", "start", "request" (the request is built),
                         \* "returned", "exit" (log.Fatal)
    callIn,              \* the operation called and its arguments
    callReq,             \* the request: its method, its platform parameter and
                         \* whether client.Do has sent it
    callResp,            \* the answer to the request
    callDo,              \* what doRequest made of the answer
    callRet              \* the values returned by the operation

callVars == <<callPc, callIn, callReq, callResp, callDo, callRet>>

\* Neither Builds_List nor Builds_Cancel is running.
CallIdle ==
    /\ callPc = "idle"
    /\ callIn = <<>>
    /\ callReq = <<>>
    /\ callResp = <<>>
    /\ callDo = <<>>
    /\ callRet = <<>>

\* The exit code of the process of the command line tool (-1 while it runs).
VARIABLES exitCode

Running == -1

allVars == <<vars, dlVars, ltVars, gitVars, latestBuilds, callVars, exitCode>>

\* The variables a call of one operation leaves alone: those of the others.
notMonitor == <<dlVars, ltVars, gitVars, latestBuilds, callVars, exitCode>>
notDownload == <<vars, ltVars, gitVars, latestBuilds, callVars, exitCode>>
notLatest == <<vars, dlVars, gitVars, latestBuilds, callVars, exitCode>>
notGit == <<vars, dlVars, ltVars, latestBuilds, callVars, exitCode>>
notCollect == <<dlVars, ltVars, gitVars, callVars, exitCode>>
notCall == <<vars, dlVars, ltVars, gitVars, latestBuilds, exitCode>>
notExit == <<vars, dlVars, ltVars, gitVars, latestBuilds, callVars>>

NoPath == [dir |-> "", name |-> ""]

\* Builds_Download is not running.
DlIdle ==
    /\ dlPc = "idle"
    /\ dlIn = <<>>
    /\ dlBuild = NilBuild
    /\ dlDir = ""
    /\ dlFilename = ""
    /\ dlFile = NoPath
    /\ files = {}
    /\ handles = {}
    /\ defers = <<>>
    /\ dlXfer = "none"
    /\ dlTransfers = 0
    /\ dlEntries = <<>>
    /\ dlEntry = 0
    /\ dlResult = Err("none")

\* Go map read: the zero value when the key is missing.
MapGet(m, k, zero) == IF k \in DOMAIN m THEN m[k] ELSE zero

\* Go map write.
MapPut(m, k, v) == [x \in DOMAIN m \cup {k} |-> IF x = k THEN v ELSE m[x]]

EmptyMap == [x \in {} |-> FALSE]

\* Printed lines (only printed when context.OutputFormat is Human).
Line(k, b, from, to) ==
    [kind |-> k, target |-> b.TargetId, number |-> b.Number, from |-> from, to |-> to]

Human(lines) == IF outputFormat = OutputFormat_Human THEN lines ELSE <<>>

Init ==
    /\ outputFormat \in OutputFormats
    /\ all \in BOOLEAN
    /\ abortOnFail \in BOOLEAN
    /\ buildTargetId \in IF all THEN {0} ELSE TargetIds
    /\ buildNumber \in IF all THEN {-1} ELSE {-1} \cup Numbers
    /\ pc = "start"
    /\ builds = <<>>
    /\ finishedBuilds = EmptyMap
    /\ lastBuildStatus = EmptyMap
    /\ finishedBuildsCount = 0
    /\ i = 0
    /\ result = Err("none")
    /\ resp = Err("none")
    /\ out = <<>>
    /\ ticks = 0
    /\ fetches = 0
    /\ fetched = {}
    /\ notified = 0
    /\ rateLimited = 0
    /\ DlIdle
    /\ LtIdle
    /\ GitIdle
    /\ latestBuilds = NoLatestBuilds
    /\ CallIdle
    /\ exitCode = Running

\* The monitor is not running.
MonitorIdle ==
    /\ outputFormat = OutputFormat_None
    /\ all = FALSE
    /\ abortOnFail = FALSE
    /\ buildTargetId = 0
    /\ buildNumber = 0
    /\ pc = "idle"
    /\ builds = <<>>
    /\ finishedBuilds = EmptyMap
    /\ lastBuildStatus = EmptyMap
    /\ finishedBuildsCount = 0
    /\ i = 0
    /\ result = NoError
    /\ resp = NoError
    /\ out = <<>>
    /\ ticks = 0
    /\ fetches = 0
    /\ fetched = {}
    /\ notified = 0
    /\ rateLimited = 0

\* --------------------------------------------------------- Builds_Latest
\* Errors a resolver call (Builds_Status, Builds_Latest) can return.
ResolverErrors == {RateLimitedError, ResourceNotFoundError, TransportError, HttpError(500)}

\* The values Builds_Latest(quietContext, false, true) can return without
\* error: a map from the ids of the enabled targets to the most recent build
\* of the target, or to nil when the target has no build.
\* The number of the most recent build of target t is fixed by the service:
\* the numbers differ from one target to the next.
LatestNumber(t) == ((t - 1) % MaxNumber) + 1

LatestBuildsMaps(statuses) ==
    UNION {[ids -> {NilBuild} \cup {Build(0, 0, s) : s \in statuses}] :
           ids \in SUBSET TargetIds}

\* The build stored under key t is a build of target t, the most recent one.
LatestBuild(m, t) ==
    IF m[t] = NilBuild THEN NilBuild
    ELSE Build(t, LatestNumber(t), m[t].Status)

\* The orders in which a range over a Go map can visit the keys in S.
RangeOrders(S) ==
    {f \in [1..Cardinality(S) -> S] : \A a, b \in 1..Cardinality(S) : f[a] = f[b] => a = b}

\* ------------------------------------------------- Builds_WaitForComplete
\* Mutant: the precondition loop rejects nothing.
FirstInactive_none(bs) == 0

\* Index of the first build of bs that is not active, 0 when there is none.
FirstInactive(bs) ==
    IF \E k \in 1..Len(bs) : ~IsBuildActive(bs[k])
    THEN CHOOSE k \in 1..Len(bs) :
            /\ ~IsBuildActive(bs[k])
            /\ \A j \in 1..(k - 1) : IsBuildActive(bs[j])
    ELSE 0

\* The last index below n+1 whose build has identity id.
LastWith(bs, n, id) ==
    CHOOSE j \in 1..n : /\ UniqueId(bs[j]) = id
                        /\ \A k \in (j + 1)..n : UniqueId(bs[k]) # id

\* Lines 632-652: the empty check and the precondition loop over the
\* collected builds bs.
StartWatching(bs) ==
    IF Len(bs) = 0
    THEN /\ result' = Err("NoBuildsFound")
         /\ pc' = "done"
         /\ builds' = bs
         /\ out' = <<>>
         /\ UNCHANGED <<finishedBuilds, lastBuildStatus>>
    ELSE LET k == FirstInactive(bs)
             n == IF k = 0 THEN Len(bs) ELSE k - 1
             ids == {UniqueId(bs[j]) : j \in 1..n}
         IN  /\ builds' = bs
             /\ finishedBuilds' = [id \in ids |-> FALSE]
             /\ lastBuildStatus' = [id \in ids |-> bs[LastWith(bs, n, id)].Status]
             /\ out' = Human([j \in 1..n |-> Line("Watching", bs[j], "", "")])
             /\ IF k # 0
                THEN /\ result' = BuildErr("NotActive", bs[k], "")
                     /\ pc' = "done"
                ELSE /\ result' = result
                     /\ pc' = "wait"

\* A resolver call of the collection phase returned err.
CollectFails(err) ==
    /\ result' = err
    /\ pc' = IF err = FatalExit THEN "exit" ELSE "done"
    /\ out' = <<>>
    /\ UNCHANGED <<builds, finishedBuilds, lastBuildStatus>>

\* Mutant: the builds that are not active are kept too.
WatchActive_unfiltered(m) ==
    LET keep == {t \in DOMAIN m : m[t] # NilBuild}
    IN  \E order \in RangeOrders(keep) :
           StartWatching([j \in 1..Cardinality(keep) |-> LatestBuild(m, order[j])])

\* Lines 612-616: the active builds of the map m, in the order of the range.
WatchActive(m) ==
    LET keep == {t \in DOMAIN m : m[t] # NilBuild /\ IsBuildActive(LatestBuild(m, t))}
    IN  \E order \in RangeOrders(keep) :
           StartWatching([j \in 1..Cardinality(keep) |-> LatestBuild(m, order[j])])

\* Lines 607-616: all active latest builds of the enabled targets.
CollectAll ==
    /\ all
    /\ \/ \E err \in ResolverErrors : CollectFails(err)
       \/ \E m \in LatestBuildsMaps(BatchStatuses) : WatchActive(m)

\* Lines 617-622: one build named by target id and number.
CollectNumbered ==
    /\ ~all
    /\ buildNumber > 0
    /\ \E r \in StatusResponses(Build(buildTargetId, buildNumber, ""), Statuses) :
          LET st == Builds_Status(r)
          IN  IF st.err # NoError
              THEN CollectFails(st.err)
              ELSE StartWatching(<<st.build>>)

\* Lines 627-629: the build of the named target in the map m, when it has one.
WatchLatest(m) ==
    IF buildTargetId \in DOMAIN m /\ m[buildTargetId] # NilBuild
    THEN StartWatching(<<LatestBuild(m, buildTargetId)>>)
    ELSE StartWatching(<<>>)

\* Lines 623-630: the latest build of one target.
CollectLatest ==
    /\ ~all
    /\ ~(buildNumber > 0)
    /\ \/ \E err \in ResolverErrors : CollectFails(err)
       \/ \E m \in LatestBuildsMaps(Statuses) : WatchLatest(m)

\* Lines 599-652: from the call to the first wait of the poll loop.
Collect ==
    /\ pc = "start"
    /\ \/ CollectAll
       \/ CollectNumbered
       \/ CollectLatest
    /\ UNCHANGED <<notMonitor, args, finishedBuildsCount, i, resp, ticks, fetches, fetched,
                   notified, rateLimited>>

\* The collection phase with the map it was given put on record.
\* Lines 607-616.
ColWatchAll ==
    /\ pc = "start"
    /\ all
    /\ \E m \in LatestBuildsMaps(BatchStatuses) :
         /\ WatchActive(m)
         /\ latestBuilds' = [known |-> TRUE, map |-> m]
    /\ UNCHANGED <<notCollect, args, finishedBuildsCount, i, resp, ticks, fetches, fetched,
                   notified, rateLimited>>

\* Lines 623-630.
ColWatchLatest ==
    /\ pc = "start"
    /\ ~all
    /\ ~(buildNumber > 0)
    /\ \E m \in LatestBuildsMaps(Statuses) :
         /\ WatchLatest(m)
         /\ latestBuilds' = [known |-> TRUE, map |-> m]
    /\ UNCHANGED <<notCollect, args, finishedBuildsCount, i, resp, ticks, fetches, fetched,
                   notified, rateLimited>>

\* Lines 617-622: no map is asked for.
ColNumbered ==
    /\ pc = "start"
    /\ CollectNumbered
    /\ UNCHANGED <<notMonitor, args, finishedBuildsCount, i, resp, ticks, fetches, fetched,
                   notified, rateLimited>>

\* Lines 608-611 and 624-627: Builds_Latest returned an error.
ColFails ==
    /\ pc = "start"
    /\ all \/ ~(buildNumber > 0)
    /\ \E err \in ResolverErrors : CollectFails(err)
    /\ UNCHANGED <<notMonitor, args, finishedBuildsCount, i, resp, ticks, fetches, fetched,
                   notified, rateLimited>>


\* ------------------------------------------------------------ the poll loop
\* Mutant: finished entries are not skipped.
IsFinished_never(m, b) == FALSE

\* Line 663: the entry is skipped when its finished flag is set.
IsFinished(m, b) == MapGet(m, UniqueId(b), FALSE)

\* Mutant: a 404 is answered by backing off too.
BacksOff_notFound(err) == err \in {RateLimitedError, ResourceNotFoundError}

\* Lines 668-673: RateLimitedError alone is answered by backing off.
BacksOff(err) == err = RateLimitedError

\* Mutant: continue instead of break.
AfterBreak_continue(idx, n) == idx + 1

\* Line 670: break leaves the range loop over the n builds at index idx.
AfterBreak(idx, n) == n + 1

\* Mutants: the comparison of line 678 always false, always true.
StatusChanged_never(lastStatus, b) == FALSE

StatusChanged_always(lastStatus, b) == TRUE

\* Line 678: the fetched status differs from the last one observed.
StatusChanged(lastStatus, b) == lastStatus # b.Status

\* Mutant: no early return.
AbortsEarly_never(abort, b) == FALSE

\* Line 698: the early return of abortOnFail.
AbortsEarly(abort, b) == abort /\ b.Status # "success"

\* Mutant: the exit test never holds.
AllFinished_never(count, bs) == FALSE

\* Mutant: the loop is left as soon as one entry is finished.
AllFinished_any(count, bs) == count >= 1

\* Line 704: the exit test of the poll loop.
AllFinished(count, bs) == count = Len(bs)

\* Mutant: the last build that is not a success is named.
FinalResult_last(bs) ==
    IF \E k \in 1..Len(bs) : bs[k].Status # "success"
    THEN LET k == CHOOSE k \in 1..Len(bs) :
                    /\ bs[k].Status # "success"
                    /\ \A j \in (k + 1)..Len(bs) : bs[j].Status = "success"
         IN  BuildErr("Failed", bs[k], "")
    ELSE NoError

\* Lines 710-720: the error returned after the loop.
FinalResult(bs) ==
    IF \E k \in 1..Len(bs) : bs[k].Status # "success"
    THEN LET k == CHOOSE k \in 1..Len(bs) :
                    /\ bs[k].Status # "success"
                    /\ \A j \in 1..(k - 1) : bs[j].Status = "success"
         IN  BuildErr("Failed", bs[k], "")
    ELSE NoError

\* Line 657: the timer of the poll rate fires and the range loop starts.
Tick ==
    /\ pc = "wait"
    /\ ticks < MaxTicks
    /\ pc' = "poll"
    /\ i' = 1
    /\ ticks' = ticks + 1
    /\ fetched' = {}
    /\ out' = <<>>
    /\ UNCHANGED <<notMonitor, args, builds, finishedBuilds, lastBuildStatus, finishedBuildsCount,
                   result, resp, fetches, notified, rateLimited>>

\* Lines 663-665: continue past an entry that is finished.
SkipFinished ==
    /\ pc = "poll"
    /\ i <= Len(builds)
    /\ IsFinished(finishedBuilds, builds[i])
    /\ i' = i + 1
    /\ out' = <<>>
    /\ UNCHANGED <<notMonitor, args, pc, builds, finishedBuilds, lastBuildStatus, finishedBuildsCount,
                   result, resp, ticks, fetches, fetched, notified, rateLimited>>

\* Lines 668-670: the fetch was rate limited.
PollRateLimited ==
    /\ i' = AfterBreak(i, Len(builds))
    /\ rateLimited' = rateLimited + 1
    /\ out' = <<>>
    /\ UNCHANGED <<pc, builds, finishedBuilds, lastBuildStatus, finishedBuildsCount,
                   result, notified>>

\* Lines 671-673: the fetch failed (or the process exited in doRequest).
PollFails(err) ==
    /\ result' = err
    /\ pc' = IF err = FatalExit THEN "exit" ELSE "done"
    /\ out' = <<>>
    /\ UNCHANGED <<builds, finishedBuilds, lastBuildStatus, finishedBuildsCount, i,
                   notified, rateLimited>>

\* Lines 675-701: the fetch returned the snapshot updatedBuild.
PollUpdates(updatedBuild) ==
    LET id == UniqueId(updatedBuild)
        lastStatus == MapGet(lastBuildStatus, id, "")
        changed == StatusChanged(lastStatus, updatedBuild)
        finished == ~IsBuildActive(updatedBuild)
        changeLines == IF changed
                       THEN <<Line("changed", updatedBuild, lastStatus, updatedBuild.Status)>>
                       ELSE <<>>
        finishLines == IF finished
                       THEN IF updatedBuild.Status # "success"
                            THEN <<Line("failed", updatedBuild, "", updatedBuild.Status)>>
                            ELSE <<Line("finished", updatedBuild, "", "")>>
                       ELSE <<>>
    IN  /\ builds' = [builds EXCEPT ![i] = updatedBuild]
        /\ lastBuildStatus' = IF changed
                              THEN MapPut(lastBuildStatus, id, updatedBuild.Status)
                              ELSE lastBuildStatus
        /\ finishedBuilds' = IF finished THEN MapPut(finishedBuilds, id, TRUE)
                             ELSE finishedBuilds
        /\ finishedBuildsCount' = IF finished THEN finishedBuildsCount + 1
                                  ELSE finishedBuildsCount
        /\ out' = Human(changeLines \o finishLines)
        /\ notified' = notified + Len(Human(changeLines))
        /\ IF finished /\ AbortsEarly(abortOnFail, updatedBuild)
           THEN /\ result' = BuildErr("AbortEarly", updatedBuild, updatedBuild.Status)
                /\ pc' = "done"
                /\ i' = i
           ELSE /\ result' = result
                /\ pc' = pc
                /\ i' = i + 1
        /\ UNCHANGED rateLimited

\* Lines 667-673: the fetch was answered by r; the three ways on.
PollAnswer(r) ==
    LET st == Builds_Status(r)
    IN  /\ resp' = st.err
        /\ IF BacksOff(st.err) THEN PollRateLimited
           ELSE IF st.err # NoError THEN PollFails(st.err)
           ELSE PollUpdates(st.build)

\* What the service can answer to the status fetch of entry idx.
PollResponses(idx) ==
    StatusResponses(builds[idx], IF Len(builds) = 1 THEN Statuses ELSE BatchStatuses)

\* Lines 667-701: one status fetch of the range loop and what follows it.
PollBuild ==
    /\ pc = "poll"
    /\ i <= Len(builds)
    /\ ~IsFinished(finishedBuilds, builds[i])
    /\ \E r \in PollResponses(i) : PollAnswer(r)
    /\ fetches' = fetches + 1
    /\ fetched' = fetched \cup {i}
    /\ UNCHANGED <<notMonitor, args, ticks>>

\* Lines 704-720: the range loop is over; leave the poll loop and return, or
\* wait for the next tick.
EndTick ==
    /\ pc = "poll"
    /\ i > Len(builds)
    /\ IF AllFinished(finishedBuildsCount, builds)
       THEN /\ result' = FinalResult(builds)
            /\ pc' = "done"
            /\ out' = IF FinalResult(builds) = NoError
                      THEN Human(<<Line("complete", ZeroBuild, "", "")>>)
                      ELSE <<>>
       ELSE /\ pc' = "wait"
            /\ out' = <<>>
            /\ UNCHANGED result
    /\ UNCHANGED <<notMonitor, args, builds, finishedBuilds, lastBuildStatus, finishedBuildsCount, i,
                   resp, ticks, fetches, fetched, notified, rateLimited>>

Next ==
    \/ Collect
    \/ Tick
    \/ SkipFinished
    \/ PollBuild
    \/ EndTick

Spec == Init /\ [][Next]_allVars

\* The collection phase and the first tick of the poll loop.
ColNext ==
    \/ ColWatchAll
    \/ ColWatchLatest
    \/ ColNumbered
    \/ ColFails
    \/ Tick

SpecCollect == Init /\ [][ColNext]_allVars

\* ------------------------------------------------- the poll loop, unbounded
\* The poll loop under a service that lets every watched build finish: over
\* the whole call it gives at most MaxDelays answers that are a 429 or a
\* status that is not terminal, and every other answer is a decoded 200 with
\* a terminal status.  The loop itself is not cut off.
Delays == fetches - finishedBuildsCount

LiveResponses(idx) ==
    {r \in PollResponses(idx) :
        /\ ~r.neterr
        /\ r.code \in {200, 429}
        /\ r.code = 429 => Delays < MaxDelays
        /\ r.code = 200 => /\ r.decodes
                           /\ IsBuildActive(r.build) => Delays < MaxDelays}

\* Line 657 without the cut-off of Tick: the ticks are not counted.
LiveTick ==
    /\ pc = "wait"
    /\ pc' = "poll"
    /\ i' = 1
    /\ fetched' = {}
    /\ out' = <<>>
    /\ UNCHANGED <<notMonitor, args, builds, finishedBuilds, lastBuildStatus, finishedBuildsCount,
                   result, resp, ticks, fetches, notified, rateLimited>>

\* Lines 667-701 with the answers of LiveResponses.
LivePollBuild ==
    /\ pc = "poll"
    /\ i <= Len(builds)
    /\ ~IsFinished(finishedBuilds, builds[i])
    /\ \E r \in LiveResponses(i) : PollAnswer(r)
    /\ fetches' = fetches + 1
    /\ fetched' = fetched \cup {i}
    /\ UNCHANGED <<notMonitor, args, ticks>>

LiveNext ==
    \/ Collect
    \/ LiveTick
    \/ SkipFinished
    \/ LivePollBuild
    \/ EndTick

\* The goroutine keeps running and the timer of time.After fires: a step
\* that can be taken is eventually taken.
SpecLive == Init /\ [][LiveNext]_allVars /\ WF_allVars(LiveNext)

TypeOK ==
    /\ pc \in {"start", "wait", "poll", "done", "exit"}
    /\ finishedBuildsCount \in 0..Len(builds)
    /\ i \in 0..(Len(builds) + 1)
    /\ ticks \in 0..MaxTicks

\* ----------------------------------------------------------- Builds_List
\* The keys of platformShorthand after init(): the shorthands and every
\* valid platform.
validPlatforms ==
    {"ios", "android", "webgl", "standaloneosxintel", "standaloneosxintel64",
     "standaloneosxuniversal", "standalonewindows", "standalonewindows64",
     "standalonelinux", "standalonelinux64", "standalonelinuxuniversal"}

\* The map literal of lines 454-460 with the entries init() adds (465-469).
platformShorthand ==
    [p \in {"osx", "win", "win64", "linux", ""} \cup validPlatforms |->
        CASE p = "osx" -> "standaloneosxuniversal"
          [] p = "win" -> "standalonewindows"
          [] p = "win64" -> "standalonewindows64"
          [] p = "linux" -> "standalonelinuxuniversal"
          [] OTHER -> p]

\* Mutant: the filter goes into the query as it was given.
PlatformQuery_asGiven(filterPlatform) ==
    [fatal |-> FALSE, has |-> filterPlatform # "", val |-> filterPlatform]

\* Lines 1084-1091: the platform parameter of the query, or log.Fatalf.
PlatformQuery(filterPlatform) ==
    IF filterPlatform = "" THEN [fatal |-> FALSE, has |-> FALSE, val |-> ""]
    ELSE IF filterPlatform \in DOMAIN platformShorthand
         THEN [fatal |-> FALSE, has |-> TRUE, val |-> platformShorthand[filterPlatform]]
         ELSE [fatal |-> TRUE, has |-> FALSE, val |-> ""]

min(a, b) == IF a > b THEN b ELSE a

\* Builds_List: the request carries the status filter; r is the answer, whose
\* body is a list of builds.  (nil, err) on error, else the entries, cut to
\* limit when limit > 0.
Builds_List(r, filterPlatform, limit) ==
    IF PlatformQuery(filterPlatform).fatal
    THEN [err |-> FatalExit, entries |-> <<>>]
    ELSE LET d == doRequest(r, <<>>)
         IN  IF d.err # NoError THEN [err |-> d.err, entries |-> <<>>]
             ELSE [err |-> NoError,
                   entries |-> IF limit > 0
                               THEN SubSeq(d.result, 1, min(Len(d.result), limit))
                               ELSE d.result]

\* The answers to a list request whose body, when it decodes, is one of lists.
ListResponses(lists) ==
    [neterr : {FALSE}, code : {200}, decodes : {TRUE}, build : lists]
    \cup [neterr : {FALSE}, code : {200}, decodes : {FALSE}, build : {<<>>}]
    \cup [neterr : {FALSE}, code : HttpCodes \ {200}, decodes : {FALSE}, build : {<<>>}]
    \cup [neterr : {TRUE}, code : {0}, decodes : {FALSE}, build : {<<>>}]

\* ------------------------------------------- Builds_List and Builds_Cancel
\* One behaviour of SpecCall is one call of Builds_List or of Builds_Cancel:
\* the request is built, client.Do sends it, doRequest classifies the answer
\* and the operation returns.  The body of an answer is a JSON list of
\* builds, a JSON object {"error": text}, or no JSON at all.
Filters == {"", "win64", "osx", "standalonewindows64", "android", "ps5"}

CallCodes == {200, 202, 204, 404, 429, 400, 500}

CallLists == {<<>>, <<Build(1, 1, "success")>>,
              <<Build(1, 2, "success"), Build(1, 1, "failure")>>}

Body(k, bs, e) == [kind |-> k, builds |-> bs, error |-> e]

Bodies == {Body("builds", l, "") : l \in CallLists}
          \cup {Body("error", <<>>, "boom"), Body("garbage", <<>>, "")}

CallResponses ==
    {[neterr |-> FALSE, code |-> c, decodes |-> b.kind = "builds", build |-> b.builds,
      body |-> b] : c \in CallCodes, b \in Bodies}
    \cup {[neterr |-> TRUE, code |-> 0, decodes |-> FALSE, build |-> <<>>,
           body |-> Body("garbage", <<>>, "")]}

\* Lines 1285-1286: json.Unmarshal(body, &e) with its error ignored; e.Error
\* stays empty when the body is no JSON object.
UnmarshalError(body) == IF body.kind = "error" THEN body.error ELSE ""

NoMessage == [code |-> 0, text |-> ""]

\* Line 1287: what fmt.Errorf("[HTTP %d] %s", ...) formats.
doRequestMessage(r) ==
    IF doRequest(r, <<>>).err.kind = "HTTP"
    THEN [code |-> r.code, text |-> UnmarshalError(r.body)]
    ELSE NoMessage

\* doRequest with a nil result (line 1275): a 200 or 202 body is not decoded.
doRequestNil(r) ==
    IF ~r.neterr /\ r.code \in {200, 202} THEN [err |-> NoError, result |-> <<>>]
    ELSE doRequest(r, <<>>)

\* Builds_Cancel, lines 1003-1010.
Builds_Cancel(r, buildTargetIdArg, buildNumberArg) ==
    LET d == doRequestNil(r)
    IN  IF d.err = ResourceNotFoundError
        THEN BuildErr("CannotFind", Build(buildTargetIdArg, buildNumberArg, ""), "")
        ELSE d.err

NoRequest == [built |-> FALSE, method |-> "", platform |-> [has |-> FALSE, val |-> ""],
              sent |-> FALSE]

NoResponse == [neterr |-> FALSE, code |-> 0, decodes |-> FALSE, build |-> <<>>,
               body |-> Body("none", <<>>, "")]

NoOutcome == [err |-> Err("none"), result |-> <<>>, message |-> NoMessage]

NoReturn == [err |-> Err("none"), entries |-> <<>>]

CallInputs ==
    [op : {"list"}, target : {1}, number : {0}, filterPlatform : Filters, limit : {0, 1}]
    \cup [op : {"cancel"}, target : {1}, number : Numbers, filterPlatform : {""},
          limit : {0}]

CallInit ==
    /\ MonitorIdle
    /\ DlIdle
    /\ LtIdle
    /\ GitIdle
    /\ latestBuilds = NoLatestBuilds
    /\ exitCode = Running
    /\ callPc = "start"
    /\ callIn \in CallInputs
    /\ callReq = NoRequest
    /\ callResp = NoResponse
    /\ callDo = NoOutcome
    /\ callRet = NoReturn

\* Builds_List, lines 1077-1093: the request and its query.
CallBuildList ==
    /\ callPc = "start"
    /\ callIn.op = "list"
    /\ LET q == PlatformQuery(callIn.filterPlatform)
       IN  IF q.fatal
           THEN /\ callPc' = "exit"
                /\ callRet' = [err |-> FatalExit, entries |-> <<>>]
                /\ UNCHANGED callReq
           ELSE /\ callPc' = "request"
                /\ callReq' = [built |-> TRUE, method |-> "GET",
                               platform |-> [has |-> q.has, val |-> q.val],
                               sent |-> FALSE]
                /\ UNCHANGED callRet
    /\ UNCHANGED <<notCall, callIn, callResp, callDo>>

\* Builds_Cancel, lines 1000-1001: the request.
CallBuildCancel ==
    /\ callPc = "start"
    /\ callIn.op = "cancel"
    /\ callPc' = "request"
    /\ callReq' = [built |-> TRUE, method |-> "DELETE",
                   platform |-> [has |-> FALSE, val |-> ""], sent |-> FALSE]
    /\ UNCHANGED <<notCall, callIn, callResp, callDo, callRet>>

\* Builds_List, lines 1097-1118: doRequest and the return.
CallDoList ==
    /\ callPc = "request"
    /\ callIn.op = "list"
    /\ \E r \in CallResponses :
          LET d == doRequest(r, <<>>)
              l == Builds_List(r, callIn.filterPlatform, callIn.limit)
          IN  /\ callResp' = r
              /\ callDo' = [err |-> d.err, result |-> d.result,
                            message |-> doRequestMessage(r)]
              /\ callRet' = l
              /\ callPc' = IF l.err = FatalExit THEN "exit" ELSE "returned"
    /\ callReq' = [callReq EXCEPT !.sent = TRUE]
    /\ UNCHANGED <<notCall, callIn>>

\* Builds_Cancel, lines 1003-1010: doRequest and the return.
CallDoCancel ==
    /\ callPc = "request"
    /\ callIn.op = "cancel"
    /\ \E r \in CallResponses :
          LET d == doRequestNil(r)
          IN  /\ callResp' = r
              /\ callDo' = [err |-> d.err, result |-> d.result,
                            message |-> doRequestMessage(r)]
              /\ callRet' = [err |-> Builds_Cancel(r, callIn.target, callIn.number),
                             entries |-> <<>>]
              /\ callPc' = "returned"
    /\ callReq' = [callReq EXCEPT !.sent = TRUE]
    /\ UNCHANGED <<notCall, callIn>>

CallNext ==
    \/ CallBuildList
    \/ CallBuildCancel
    \/ CallDoList
    \/ CallDoCancel

SpecCall == CallInit /\ [][CallNext]_allVars

\* --------------------------------------------------------- Builds_Download
\* One behaviour of SpecDownload is one call of Builds_Download.  The local
\* file system is reduced to the set of files that exist and the handles the
\* call holds open; the deferred calls are kept on a stack and run, last one
\* first, when the function returns.  The lines printed are left out.
MaxEntries == 2

GOOS == {"linux", "darwin", "windows"}

\* What os.Stat finds at the output directory: a directory, something that is
\* not a directory, nothing, or an error other than "does not exist".
StatOutcomes == {"dir", "notdir", "missing", "denied"}

DlStatuses == {"success", "failure", "started"}

FileTypes == {"zip", "ZIP", "Zip", "apk"}

\* strings.ToLower on the file types of the model.
ToLower_identity(s) == s

ToLower(s) ==
    CASE s = "ZIP" -> "zip"
      [] s = "Zip" -> "zip"
      [] OTHER -> s

\* The value of the response-content-disposition query parameter (Get gives
\* "" when it is missing): its media type, whether its syntax is valid and
\* its parameters.
NoParams == [k \in {} |-> ""]
MissingDisposition == [mediatype |-> "", wellformed |-> TRUE, params |-> NoParams]
Dispositions ==
    {MissingDisposition,
     [mediatype |-> "attachment", wellformed |-> FALSE, params |-> NoParams],
     [mediatype |-> "attachment", wellformed |-> TRUE, params |-> NoParams],
     [mediatype |-> "attachment", wellformed |-> TRUE,
      params |-> [k \in {"filename"} |-> "hint.zip"]]}

\* mime.ParseMediaType: an error on the empty and on the malformed value,
\* else the parameters.
ParseMediaType(v) ==
    IF v.mediatype = "" \/ ~v.wellformed THEN [err |-> TRUE, params |-> NoParams]
    ELSE [err |-> FALSE, params |-> v.params]

\* params["filename"]: the zero value "" when the key is missing.
ParamsGet(params, key) == IF key \in DOMAIN params THEN params[key] ELSE ""

\* Link.Href: whether url.Parse accepts it, the segments of its path and its
\* response-content-disposition parameter.
UrlPaths == {<<"proj", "build.zip">>, <<"build.apk">>}
Hrefs ==
    [valid : {TRUE}, path : UrlPaths, disposition : Dispositions]
    \cup {[valid |-> FALSE, path |-> <<>>, disposition |-> MissingDisposition]}

\* path.Base
Base(p) == IF p = <<>> THEN "." ELSE p[Len(p)]

\* build.Links.DownloadPrimary
NilLink == [nil |-> TRUE]
Links == {NilLink} \cup [nil : {FALSE}, Href : Hrefs, Type : FileTypes]

DlBuild(t, n, s, l) == [TargetId |-> t, Number |-> n, Status |-> s, DownloadPrimary |-> l]

DlBuilds(t, n) == {DlBuild(t, n, s, l) : s \in DlStatuses, l \in Links}

\* The link of a build; the zero Build has none.
DownloadPrimary(b) ==
    IF "DownloadPrimary" \in DOMAIN b THEN b.DownloadPrimary ELSE NilLink

DlInit ==
    /\ MonitorIdle
    /\ LtIdle
    /\ GitIdle
    /\ dlPc = "start"
    /\ dlIn \in [latest : BOOLEAN, unzip : BOOLEAN, outputDir : {"", "out"},
                 goos : GOOS, stat : StatOutcomes, target : {1}, number : {1}]
    /\ dlBuild = NilBuild
    /\ dlDir = ""
    /\ dlFilename = ""
    /\ dlFile = NoPath
    /\ files = {}
    /\ handles = {}
    /\ defers = <<>>
    /\ dlXfer = "none"
    /\ dlTransfers = 0
    /\ dlEntries = <<>>
    /\ dlEntry = 0
    /\ dlResult = Err("none")
    /\ latestBuilds = NoLatestBuilds
    /\ CallIdle
    /\ exitCode = Running

\* return err before any call is deferred.
DlReturn(e) ==
    /\ dlPc' = "returned"
    /\ dlResult' = e

\* return err with calls deferred: they run before the caller resumes.
DlReturnDeferred(e) ==
    /\ dlPc' = "returning"
    /\ dlResult' = e

\* The checks of lines 764-770 on the build found.
Precondition(b, unzip) ==
    IF b.Status # "success" THEN [kind |-> "CannotDownload", code |-> 0, target |-> 0,
                                  number |-> 0, status |-> b.Status]
    ELSE IF DownloadPrimary(b).nil THEN Err("MissingDownloadLink")
    ELSE IF unzip /\ ToLower(DownloadPrimary(b).Type) # "zip"
         THEN [kind |-> "CannotUnzip", code |-> 0, target |-> 0, number |-> 0,
               status |-> ToLower(DownloadPrimary(b).Type)]
    ELSE NoError

\* Lines 740-770 once a build is found.
DlFound(b) ==
    /\ dlBuild' = b
    /\ IF Precondition(b, dlIn.unzip) # NoError
       THEN DlReturn(Precondition(b, dlIn.unzip))
       ELSE dlPc' = "resolved" /\ UNCHANGED dlResult

\* Lines 740-744: the build is named by its number.
DlResolveNumber ==
    /\ dlPc = "start"
    /\ ~dlIn.latest
    /\ \E r \in StatusResponses(Build(dlIn.target, dlIn.number, ""), {}) \cup
                [neterr : {FALSE}, code : {200}, decodes : {TRUE},
                 build : DlBuilds(dlIn.target, dlIn.number)] :
         LET s == Builds_Status(r)
         IN  IF s.err # NoError
             THEN dlPc' = "exit" /\ dlResult' = FatalExit /\ UNCHANGED dlBuild
             ELSE DlFound(s.build)
    /\ UNCHANGED <<notDownload, dlIn, dlDir, dlFilename, dlFile, files, handles, defers, dlXfer,
                   dlTransfers, dlEntries, dlEntry>>

\* Lines 745-758: the latest successful build of the target.
DlResolveLatest ==
    /\ dlPc = "start"
    /\ dlIn.latest
    /\ \E r \in ListResponses({<<>>} \cup {<<b>> : b \in DlBuilds(dlIn.target, dlIn.number)}
                              \cup {<<b, DlBuild(dlIn.target, dlIn.number, "failure", NilLink)>> :
                                      b \in DlBuilds(dlIn.target, dlIn.number)}) :
         LET l == Builds_List(r, "", 1)
         IN  IF l.err # NoError
             THEN dlPc' = "exit" /\ dlResult' = FatalExit /\ UNCHANGED dlBuild
             ELSE IF Len(l.entries) = 0
             THEN DlReturn([kind |-> "NoSuccessfulBuild", code |-> 0, target |-> dlIn.target,
                            number |-> 0, status |-> ""])
                  /\ UNCHANGED dlBuild
             ELSE DlFound(l.entries[1])
    /\ UNCHANGED <<notDownload, dlIn, dlDir, dlFilename, dlFile, files, handles, defers, dlXfer,
                   dlTransfers, dlEntries, dlEntry>>

\* Lines 773-782.  With an error other than "does not exist" os.Stat gives a
\* nil FileInfo, and outputDirInfo.IsDir() is evaluated before the err # nil
\* branch is reached: the call panics.
EffectiveDir_asGiven(outputDir) == outputDir

EffectiveDir(outputDir) == IF outputDir = "" THEN "." ELSE outputDir

DlCheckDir ==
    /\ dlPc = "resolved"
    /\ dlDir' = EffectiveDir(dlIn.outputDir)
    /\ CASE dlIn.stat = "missing" \/ dlIn.stat = "notdir" ->
              DlReturn([kind |-> "NotADirectory", code |-> 0, target |-> 0, number |-> 0,
                        status |-> EffectiveDir(dlIn.outputDir)])
         [] dlIn.stat = "denied" -> dlPc' = "panic" /\ UNCHANGED dlResult
         [] OTHER -> dlPc' = "checked" /\ UNCHANGED dlResult
    /\ UNCHANGED <<notDownload, dlIn, dlBuild, dlFilename, dlFile, files, handles, defers, dlXfer,
                   dlTransfers, dlEntries, dlEntry>>

\* Lines 790-793: the file name taken from the link.
Filename(href) ==
    LET p == ParseMediaType(href.disposition)
    IN  IF ~p.err THEN ParamsGet(p.params, "filename") ELSE Base(href.path)

\* Lines 785-793.
DlChooseName ==
    /\ dlPc = "checked"
    /\ IF ~DownloadPrimary(dlBuild).Href.valid
       THEN DlReturn(Err("url.Parse")) /\ UNCHANGED dlFilename
       ELSE /\ dlFilename' = Filename(DownloadPrimary(dlBuild).Href)
            /\ dlPc' = "named"
            /\ UNCHANGED dlResult
    /\ UNCHANGED <<notDownload, dlIn, dlBuild, dlDir, dlFile, files, handles, defers, dlXfer,
                   dlTransfers, dlEntries, dlEntry>>

\* filepath.Join(outputDir, filename): an empty element is ignored.
Join(dir, name) == [dir |-> dir, name |-> name]

\* The name ioutil.TempFile("", pattern) creates in the temporary directory.
TempName(pattern) == [dir |-> "<tmp>", name |-> pattern]

\* Lines 795-813.  os.Create fails on the directory itself (empty file name)
\* and may fail otherwise; a created file is open, and closing it is deferred.
DlCreateFile ==
    /\ dlPc = "named"
    /\ \E ok \in BOOLEAN :
         IF ~ok \/ (~dlIn.unzip /\ dlFilename = "")
         THEN DlReturn(Err("os.Create")) /\ UNCHANGED <<dlFile, files, handles, defers>>
         ELSE /\ dlFile' = IF dlIn.unzip THEN TempName(dlFilename)
                           ELSE Join(dlDir, dlFilename)
              /\ files' = files \cup {dlFile'}
              /\ handles' = handles \cup {"file"}
              /\ defers' = Append(defers, "file.Close")
              /\ dlPc' = "created"
              /\ UNCHANGED dlResult
    /\ UNCHANGED <<notDownload, dlIn, dlBuild, dlDir, dlFilename, dlXfer, dlTransfers, dlEntries, dlEntry>>

\* grabHttpFile: http.Get fails, the status code is not 200, io.Copy fails,
\* or the body is written.
XferOutcomes == {"neterr", "status", "copyerr", "ok"}

grabHttpFile(o) ==
    CASE o = "neterr" -> Err("http.Get")
      [] o = "status" -> Err("CouldNotDownload")
      [] o = "copyerr" -> Err("io.Copy")
      [] OTHER -> NoError

\* Lines 819-839.
DlTransfer ==
    /\ dlPc = "created"
    /\ \E o \in XferOutcomes :
         /\ dlXfer' = o
         /\ dlTransfers' = dlTransfers + 1
         /\ IF grabHttpFile(o) # NoError
            THEN /\ defers' = Append(defers, "os.Remove")
                 /\ DlReturnDeferred(grabHttpFile(o))
            ELSE IF ~dlIn.unzip
            THEN /\ DlReturnDeferred(NoError)
                 /\ UNCHANGED defers
            ELSE /\ defers' = Append(defers, "os.Remove")
                 /\ dlPc' = "downloaded"
                 /\ UNCHANGED dlResult
    /\ UNCHANGED <<notDownload, dlIn, dlBuild, dlDir, dlFilename, dlFile, files, handles, dlEntries, dlEntry>>

\* Lines 841-843.
DlSync ==
    /\ dlPc = "downloaded"
    /\ \E ok \in BOOLEAN :
         IF ok THEN dlPc' = "synced" /\ UNCHANGED dlResult
         ELSE DlReturnDeferred(Err("file.Sync"))
    /\ UNCHANGED <<notDownload, dlIn, dlBuild, dlDir, dlFilename, dlFile, files, handles, defers, dlXfer,
                   dlTransfers, dlEntries, dlEntry>>

\* The entries of an archive: directories and files.
Archives == UNION {[1..n -> {"dir", "file"}] : n \in 0..MaxEntries}

\* Lines 845-848: zip.OpenReader opens the archive a second time; the reader
\* is never closed.
DlOpenArchive ==
    /\ dlPc = "synced"
    /\ \/ /\ DlReturnDeferred(Err("zip.OpenReader"))
          /\ UNCHANGED <<handles, dlEntries, dlEntry>>
       \/ \E a \in Archives :
            /\ handles' = handles \cup {"zipReader"}
            /\ dlEntries' = a
            /\ dlEntry' = 1
            /\ dlPc' = "extract"
            /\ UNCHANGED dlResult
    /\ UNCHANGED <<notDownload, dlIn, dlBuild, dlDir, dlFilename, dlFile, files, defers, dlXfer, dlTransfers>>

\* Lines 854-897: one round of the extraction loop, or its end.
DlExtract ==
    /\ dlPc = "extract"
    /\ IF dlEntry > Len(dlEntries)
       THEN DlReturnDeferred(NoError) /\ UNCHANGED <<files, dlEntry>>
       ELSE \E ok \in BOOLEAN :
              IF ~ok
              THEN DlReturnDeferred(Err("extract")) /\ UNCHANGED <<files, dlEntry>>
              ELSE /\ files' = IF dlEntries[dlEntry] = "file"
                               THEN files \cup {Join(dlDir, "entry")}
                               ELSE files
                   /\ dlEntry' = dlEntry + 1
                   /\ UNCHANGED <<dlPc, dlResult>>
    /\ UNCHANGED <<notDownload, dlIn, dlBuild, dlDir, dlFilename, dlFile, handles, defers, dlXfer,
                   dlTransfers, dlEntries>>

\* os.Remove(path): Windows refuses to delete a file that is open (Go opens
\* files without FILE_SHARE_DELETE); the error is dropped by the caller.
Remove(goos, open, fs, path) ==
    IF goos = "windows" /\ open # {} THEN fs ELSE fs \ {path}

\* The function returns: the deferred calls run, the last deferred first.
DlRunDeferred ==
    /\ dlPc = "returning"
    /\ IF defers = <<>>
       THEN dlPc' = "returned" /\ UNCHANGED <<defers, files, handles>>
       ELSE /\ defers' = SubSeq(defers, 1, Len(defers) - 1)
            /\ IF defers[Len(defers)] = "file.Close"
               THEN handles' = handles \ {"file"} /\ UNCHANGED files
               ELSE files' = Remove(dlIn.goos, handles, files, dlFile) /\ UNCHANGED handles
            /\ UNCHANGED dlPc
    /\ UNCHANGED <<notDownload, dlIn, dlBuild, dlDir, dlFilename, dlFile, dlXfer, dlTransfers, dlEntries,
                   dlEntry, dlResult>>

DlNext ==
    \/ DlResolveNumber
    \/ DlResolveLatest
    \/ DlCheckDir
    \/ DlChooseName
    \/ DlCreateFile
    \/ DlTransfer
    \/ DlSync
    \/ DlOpenArchive
    \/ DlExtract
    \/ DlRunDeferred

SpecDownload == DlInit /\ [][DlNext]_allVars

\* --------------------------------------------- Builds_Latest, step by step
\* One behaviour of SpecLatest is one call of Builds_Latest.  The service
\* answers the target list request and every history request as it likes; a
\* target list that decodes has distinct target ids, and the builds it
\* embeds (include_last_success) are successful builds of their target.
BuildTarget(id, enabled, bs) == [Id |-> id, Enabled |-> enabled, Builds |-> bs]

TargetsOf(k) ==
    {BuildTarget(k, e, bs) :
       e \in BOOLEAN, bs \in {<<>>, <<Build(k, LatestNumber(k), "success")>>}}

TargetLists ==
    UNION {{ts \in [1..n -> UNION {TargetsOf(k) : k \in TargetIds}] :
              \A k \in 1..n : ts[k].Id = k} : n \in 0..NumTargets}

HistoryStatuses == {"success", "failure", "started"}

\* What a history request for target t may carry, most recent build first.
HistoryLists(t) ==
    {<<>>} \cup {<<Build(t, n, s)>> : n \in Numbers, s \in HistoryStatuses}
    \cup {<<Build(t, n, s), Build(t, LatestNumber(t), "success")>> :
            n \in Numbers, s \in HistoryStatuses}

\* The map with no key (make(map[string]*Build)).
NoBuilds == [t \in {} |-> NilBuild]

LtInit ==
    /\ MonitorIdle
    /\ DlIdle
    /\ GitIdle
    /\ ltPc = "start"
    /\ ltIn \in [onlySuccess : BOOLEAN, onlyEnabled : BOOLEAN]
    /\ ltTargets = <<>>
    /\ ltBuilds = NoBuilds
    /\ ltIdx = 0
    /\ ltRequested = {}
    /\ ltHistory = NoBuilds
    /\ ltRet = <<>>
    /\ latestBuilds = NoLatestBuilds
    /\ CallIdle
    /\ exitCode = Running

\* return nil, err
LtReturnErr(e) ==
    /\ ltPc' = IF e = FatalExit THEN "exit" ELSE "returned"
    /\ ltRet' = [nil |-> TRUE, builds |-> NoBuilds, err |-> e]

\* Lines 1125-1137: the target list request.
LtFetchTargets ==
    /\ ltPc = "start"
    /\ \E r \in ListResponses(TargetLists) :
         LET d == doRequest(r, <<>>)
         IN  IF d.err # NoError
             THEN LtReturnErr(d.err) /\ UNCHANGED <<ltTargets, ltIdx>>
             ELSE /\ ltTargets' = d.result
                  /\ ltIdx' = 1
                  /\ ltPc' = "pass1"
                  /\ UNCHANGED ltRet
    /\ UNCHANGED <<notLatest, ltIn, ltBuilds, ltRequested, ltHistory>>

\* Lines 1140 and 1156: the target is left out.
Skipped_never(onlyEnabled, target) == FALSE

Skipped(onlyEnabled, target) == onlyEnabled /\ ~target.Enabled

\* Lines 1144-1148 and 1164-1166: the first build of a list, nil without one.
FirstOrNil_zero(bs) == IF Len(bs) > 0 THEN bs[1] ELSE ZeroBuild

FirstOrNil(bs) == IF Len(bs) > 0 THEN bs[1] ELSE NilBuild

\* Lines 1139-1149: one round of the first loop, or its end.
LtFirstPass ==
    /\ ltPc = "pass1"
    /\ IF ltIdx <= Len(ltTargets)
       THEN /\ ltIdx' = ltIdx + 1
            /\ ltBuilds' = IF Skipped(ltIn.onlyEnabled, ltTargets[ltIdx]) THEN ltBuilds
                           ELSE MapPut(ltBuilds, ltTargets[ltIdx].Id,
                                       FirstOrNil(ltTargets[ltIdx].Builds))
            /\ UNCHANGED <<ltPc, ltRet>>
       ELSE IF ~ltIn.onlySuccess
       THEN ltPc' = "pass2" /\ ltIdx' = 1 /\ UNCHANGED <<ltBuilds, ltRet>>
       ELSE /\ ltPc' = "returned"
            /\ ltRet' = [nil |-> FALSE, builds |-> ltBuilds, err |-> NoError]
            /\ UNCHANGED <<ltBuilds, ltIdx>>
    /\ UNCHANGED <<notLatest, ltIn, ltTargets, ltRequested, ltHistory>>

\* Lines 1155-1158: the second loop passes over a target that is left out.
LtSkipTarget ==
    /\ ltPc = "pass2"
    /\ ltIdx <= Len(ltTargets)
    /\ Skipped(ltIn.onlyEnabled, ltTargets[ltIdx])
    /\ ltIdx' = ltIdx + 1
    /\ UNCHANGED <<notLatest, ltPc, ltIn, ltTargets, ltBuilds, ltRequested, ltHistory, ltRet>>

\* Lines 1160-1166: the history request of one target.
LtFetchHistory ==
    /\ ltPc = "pass2"
    /\ ltIdx <= Len(ltTargets)
    /\ ~Skipped(ltIn.onlyEnabled, ltTargets[ltIdx])
    /\ ltRequested' = ltRequested \cup {ltTargets[ltIdx].Id}
    /\ \E r \in ListResponses(HistoryLists(ltTargets[ltIdx].Id)) :
         LET l == Builds_List(r, "", 1)
         IN  IF l.err # NoError
             THEN /\ LtReturnErr(l.err)
                  /\ ltHistory' = MapPut(ltHistory, ltTargets[ltIdx].Id, l)
                  /\ UNCHANGED <<ltBuilds, ltIdx>>
             ELSE /\ ltHistory' = MapPut(ltHistory, ltTargets[ltIdx].Id, l)
                  /\ ltBuilds' = IF Len(l.entries) > 0
                                 THEN MapPut(ltBuilds, ltTargets[ltIdx].Id, l.entries[1])
                                 ELSE ltBuilds
                  /\ ltIdx' = ltIdx + 1
                  /\ UNCHANGED <<ltPc, ltRet>>
    /\ UNCHANGED <<notLatest, ltIn, ltTargets>>

\* Line 1168 on: the second loop is over, the map is returned.
LtReturn ==
    /\ ltPc = "pass2"
    /\ ltIdx > Len(ltTargets)
    /\ ltPc' = "returned"
    /\ ltRet' = [nil |-> FALSE, builds |-> ltBuilds, err |-> NoError]
    /\ UNCHANGED <<notLatest, ltIn, ltTargets, ltBuilds, ltIdx, ltRequested, ltHistory>>

LtNext ==
    \/ LtFetchTargets
    \/ LtFirstPass
    \/ LtSkipTarget
    \/ LtFetchHistory
    \/ LtReturn

SpecLatest == LtInit /\ [][LtNext]_allVars

\* ----------------------------------------------------- Git_BuildsMatchHead
\* One behaviour of SpecGit is one call of Git_BuildsMatchHead.  A revision
\* is the sequence of its characters.  Git_Head gives the hexadecimal form of
\* the hash of HEAD; the revision a build record carries is whatever the
\* service sent: HEAD, another hash with the same first characters, the first
\* characters of HEAD alone, or nothing.
HashLen == 40
PrefixLen == 8

HeadRevision == [k \in 1..HashLen |-> 0]
Revisions ==
    {HeadRevision,
     [k \in 1..HashLen |-> IF k = HashLen THEN 1 ELSE 0],
     [k \in 1..PrefixLen |-> 0],
     <<>>}

GitBuild(t, n, s, rev) ==
    [TargetId |-> t, Number |-> n, Status |-> s, LastBuiltRevision |-> rev]

GitStatuses == {"success", "failure"}

\* The values Builds_Latest(quietContext, true, true) can return without
\* error: a map from the ids of the enabled targets to the build the target
\* list embeds for the target, or to nil.
GitLatestMaps ==
    UNION {{m \in [ids -> {NilBuild} \cup
                          {GitBuild(t, LatestNumber(t), s, rev) :
                             t \in ids, s \in GitStatuses, rev \in Revisions}] :
              \A t \in ids : m[t] # NilBuild => m[t].TargetId = t} :
           ids \in SUBSET TargetIds}

GitInit ==
    /\ MonitorIdle
    /\ DlIdle
    /\ LtIdle
    /\ gitPc = "start"
    /\ gitIn \in {a \in [outputFormat : OutputFormats, all : BOOLEAN,
                         buildTargetId : {0} \cup TargetIds,
                         buildNumber : {-1, 0} \cup Numbers] :
                    IF a.all THEN a.buildTargetId = 0 /\ a.buildNumber = -1
                    ELSE a.buildTargetId # 0 /\ a.buildNumber # -1}
    /\ gitHead = <<>>
    /\ gitBuilds = <<>>
    /\ gitMissing = <<>>
    /\ gitIdx = 0
    /\ allMatch = TRUE
    /\ gitExamined = 0
    /\ gitOut = <<>>
    /\ gitRet = <<>>
    /\ latestBuilds = NoLatestBuilds
    /\ CallIdle
    /\ exitCode = Running

\* return false, err (log.Fatal inside the call ends the process instead).
GitReturnErr(e) ==
    /\ gitPc' = IF e = FatalExit THEN "exit" ELSE "returned"
    /\ gitRet' = [matches |-> FALSE, err |-> e]

\* Lines 483-490: Git_Head fails to open the repository, dies in
\* fatalIfError, or gives the revision of HEAD.
GitHead ==
    /\ gitPc = "start"
    /\ \/ \E e \in {Err("git.PlainOpen"), FatalExit} :
            GitReturnErr(e) /\ UNCHANGED gitHead
       \/ /\ gitHead' = HeadRevision
          /\ gitPc' = "collect"
          /\ UNCHANGED gitRet
    /\ UNCHANGED <<notGit, gitIn, gitBuilds, gitMissing, gitIdx, allMatch, gitExamined, gitOut>>

\* The loops start (line 524).
GitCollected(bs, missing) ==
    /\ gitBuilds' = bs
    /\ gitMissing' = missing
    /\ gitIdx' = 1
    /\ gitPc' = "missing"
    /\ UNCHANGED gitRet

\* Lines 495-506: every enabled target, in the order the range over the map
\* happens to take.
GitCollectAll ==
    /\ gitPc = "collect"
    /\ gitIn.all
    /\ \/ \E e \in ResolverErrors \cup {FatalExit} :
            GitReturnErr(e) /\ UNCHANGED <<gitBuilds, gitMissing, gitIdx>>
       \/ \E m \in GitLatestMaps : \E order \in RangeOrders(DOMAIN m) :
            GitCollected(
                SelectSeq([k \in 1..Len(order) |-> m[order[k]]], LAMBDA b : b # NilBuild),
                SelectSeq(order, LAMBDA t : m[t] = NilBuild))
    /\ UNCHANGED <<notGit, gitIn, gitHead, allMatch, gitExamined, gitOut>>

\* Lines 507-512: the build named by its number.
GitCollectNumbered ==
    /\ gitPc = "collect"
    /\ ~gitIn.all
    /\ gitIn.buildNumber > 0
    /\ \E r \in StatusResponses(Build(gitIn.buildTargetId, gitIn.buildNumber, ""), {}) \cup
                [neterr : {FALSE}, code : {200}, decodes : {TRUE},
                 build : {GitBuild(gitIn.buildTargetId, gitIn.buildNumber, s, rev) :
                            s \in GitStatuses, rev \in Revisions}] :
         LET st == Builds_Status(r)
         IN  IF st.err # NoError
             THEN GitReturnErr(st.err) /\ UNCHANGED <<gitBuilds, gitMissing, gitIdx>>
             ELSE GitCollected(<<st.build>>, <<>>)
    /\ UNCHANGED <<notGit, gitIn, gitHead, allMatch, gitExamined, gitOut>>

\* Lines 513-524: the latest successful build of one target; nothing is
\* collected when the map has no key for the target.
GitCollectLatest ==
    /\ gitPc = "collect"
    /\ ~gitIn.all
    /\ gitIn.buildNumber <= 0
    /\ \/ \E e \in ResolverErrors \cup {FatalExit} :
            GitReturnErr(e) /\ UNCHANGED <<gitBuilds, gitMissing, gitIdx>>
       \/ \E m \in GitLatestMaps :
            IF gitIn.buildTargetId \in DOMAIN m
            THEN IF m[gitIn.buildTargetId] = NilBuild
                 THEN GitCollected(<<>>, <<gitIn.buildTargetId>>)
                 ELSE GitCollected(<<m[gitIn.buildTargetId]>>, <<>>)
            ELSE GitCollected(<<>>, <<>>)
    /\ UNCHANGED <<notGit, gitIn, gitHead, allMatch, gitExamined, gitOut>>

\* A line printed, when context.OutputFormat is Human.
GitLine(k, t, n, rev, head) ==
    IF gitIn.outputFormat = OutputFormat_Human
    THEN <<[kind |-> k, target |-> t, number |-> n, rev |-> rev, head |-> head]>>
    ELSE <<>>

\* Lines 528-534: one round of the loop over the missing targets, or its end.
GitReportMissing ==
    /\ gitPc = "missing"
    /\ IF gitIdx <= Len(gitMissing)
       THEN /\ gitOut' = gitOut \o GitLine("missing", gitMissing[gitIdx], 0, <<>>, <<>>)
            /\ allMatch' = FALSE
            /\ gitIdx' = gitIdx + 1
            /\ gitExamined' = gitExamined + 1
            /\ UNCHANGED gitPc
       ELSE /\ gitPc' = "builds"
            /\ gitIdx' = 1
            /\ UNCHANGED <<allMatch, gitExamined, gitOut>>
    /\ UNCHANGED <<notGit, gitIn, gitHead, gitBuilds, gitMissing, gitRet>>

\* Lines 537 and 545: the build passes both tests of the loop.
PassesTests_prefix(build, revision) ==
    /\ build.Status = "success"
    /\ Len(build.LastBuiltRevision) >= PrefixLen
    /\ SubSeq(build.LastBuiltRevision, 1, PrefixLen) = SubSeq(revision, 1, PrefixLen)

PassesTests_statusOnly(build, revision) == build.Status = "success"

PassesTests(build, revision) ==
    /\ build.Status = "success"
    /\ build.LastBuiltRevision = revision

\* s[:n] of Go: a run-time panic when s is shorter than n.
SlicePanics(s, n) == Len(s) < n

SliceTo(s, n) == SubSeq(s, 1, n)

\* Lines 536-557: one round of the loop over the builds.  The line of a
\* revision mismatch shows the first eight characters of both revisions.
GitExamine ==
    /\ gitPc = "builds"
    /\ gitIdx <= Len(gitBuilds)
    /\ LET build == gitBuilds[gitIdx]
       IN  IF build.Status # "success"
           THEN /\ gitOut' = gitOut \o GitLine("notSuccessful", build.TargetId, build.Number,
                                               <<>>, <<>>)
                /\ allMatch' = FALSE
                /\ gitIdx' = gitIdx + 1
                /\ gitExamined' = gitExamined + 1
                /\ UNCHANGED gitPc
           ELSE IF ~PassesTests(build, gitHead)
           THEN IF /\ gitIn.outputFormat = OutputFormat_Human
                   /\ \/ SlicePanics(build.LastBuiltRevision, PrefixLen)
                      \/ SlicePanics(gitHead, PrefixLen)
                THEN /\ gitPc' = "panic"
                     /\ UNCHANGED <<gitOut, allMatch, gitIdx, gitExamined>>
                ELSE /\ gitOut' = gitOut \o
                          GitLine("mismatch", build.TargetId, build.Number,
                                  SliceTo(build.LastBuiltRevision, PrefixLen),
                                  SliceTo(gitHead, PrefixLen))
                     /\ allMatch' = FALSE
                     /\ gitIdx' = gitIdx + 1
                     /\ gitExamined' = gitExamined + 1
                     /\ UNCHANGED gitPc
           ELSE /\ gitOut' = gitOut \o GitLine("matches", build.TargetId, build.Number,
                                               <<>>, <<>>)
                /\ gitIdx' = gitIdx + 1
                /\ gitExamined' = gitExamined + 1
                /\ UNCHANGED <<gitPc, allMatch>>
    /\ UNCHANGED <<notGit, gitIn, gitHead, gitBuilds, gitMissing, gitRet>>

\* Line 559.
GitReturn ==
    /\ gitPc = "builds"
    /\ gitIdx > Len(gitBuilds)
    /\ gitPc' = "returned"
    /\ gitRet' = [matches |-> allMatch, err |-> NoError]
    /\ UNCHANGED <<notGit, gitIn, gitHead, gitBuilds, gitMissing, gitIdx, allMatch,
                   gitExamined, gitOut>>

GitNext ==
    \/ GitHead
    \/ GitCollectAll
    \/ GitCollectNumbered
    \/ GitCollectLatest
    \/ GitReportMissing
    \/ GitExamine
    \/ GitReturn

SpecGit == GitInit /\ [][GitNext]_allVars

\* ------------------------------------------------------ the command line
\* src/unity-cb-tool/main.go: one behaviour of SpecCli is one run of the
\* tool with the command wait-for-complete, git build-matches-head, builds
\* list or builds cancel.  The action of the command calls the operation and
\* returns an error or nil to app.Run, and main ends the process.  The
\* context of the tool prints for people or as JSON (buildContext, 354-357).
ExitOK == 0
ExitFatal == 1           \* log.Fatal: os.Exit(1)
ExitPanic == 2           \* a Go panic that nothing recovers

\* Lines 343-345: log.Fatal(err) when app.Run returns an error.
ExitCode(err) == IF err # NoError THEN ExitFatal ELSE ExitOK

\* Mutant: the result of the comparison is dropped.
MatchesAction_errOnly(ret) == ret.err

\* Lines 329-336: what the action of build-matches-head returns.
MatchesAction(ret) ==
    IF ret.err # NoError THEN ret.err
    ELSE IF ~ret.matches THEN Err("DoNotMatch")
    ELSE NoError

CliInit ==
    \/ Init /\ outputFormat # OutputFormat_None
    \/ GitInit /\ gitIn.outputFormat # OutputFormat_None
    \/ CallInit

\* Lines 255-266 and 343-345: wait-for-complete is over.
CliWaitExit ==
    /\ pc \in {"done", "exit"}
    /\ exitCode = Running
    /\ exitCode' = ExitCode(result)
    /\ UNCHANGED notExit

\* Lines 324-337 and 343-345: build-matches-head is over.
CliMatchesExit ==
    /\ gitPc \in {"returned", "exit", "panic"}
    /\ exitCode = Running
    /\ exitCode' = CASE gitPc = "panic" -> ExitPanic
                      [] gitPc = "exit" -> ExitFatal
                      [] OTHER -> ExitCode(MatchesAction(gitRet))
    /\ UNCHANGED notExit

\* Lines 76-81, 148-159 and 343-345: builds list or builds cancel is over.
CliCallExit ==
    /\ callPc \in {"returned", "exit"}
    /\ exitCode = Running
    /\ exitCode' = ExitCode(callRet.err)
    /\ UNCHANGED notExit

CliNext ==
    \/ Collect
    \/ Tick
    \/ SkipFinished
    \/ PollBuild
    \/ EndTick
    \/ GitHead
    \/ GitCollectAll
    \/ GitCollectNumbered
    \/ GitCollectLatest
    \/ GitReportMissing
    \/ GitExamine
    \/ GitReturn
    \/ CallBuildList
    \/ CallBuildCancel
    \/ CallDoList
    \/ CallDoCancel
    \/ CliWaitExit
    \/ CliMatchesExit
    \/ CliCallExit

SpecCli == CliInit /\ [][CliNext]_allVars

\* ===================================================================== claims
\* Vocabulary of the claims, stated on the state alone.
TerminalStatuses == {"success", "failure", "canceled", "unknown"}

\* The finished flag of the k-th watched entry.
EntryFinished(k) ==
    /\ UniqueId(builds[k]) \in DOMAIN finishedBuilds
    /\ finishedBuilds[UniqueId(builds[k])]

Watched == 1..Len(builds)

\* The step is a status fetch of the poll loop.
IsFetchStep == fetches' = fetches + 1

HasChangedLine(lines, b, from, to) ==
    \E n \in 1..Len(lines) : lines[n] = Line("changed", b, from, to)

NoChangedLine(lines) == \A n \in 1..Len(lines) : lines[n].kind # "changed"

\* C1: with abortOnFail and two or more watched builds, once a poll has
\* observed a build in a terminal status other than success the call has
\* returned an error naming that build (target id, number), and no entry
\* after it was fetched in that tick (nothing is fetched after the return).
C1_AbortOnFirstFailure ==
    \A k \in Watched :
        (/\ abortOnFail
         /\ Len(builds) >= 2
         /\ builds[k].Status \in TerminalStatuses \ {"success"})
        => /\ pc = "done"
           /\ result.kind = "AbortEarly"
           /\ result.target = builds[k].TargetId
           /\ result.number = builds[k].Number
           /\ i = k
           /\ \A j \in fetched : j <= k

C1_Witness ==
    /\ abortOnFail
    /\ Len(builds) >= 2
    /\ pc = "done"
    /\ result.kind = "AbortEarly"
    /\ \E j \in Watched : j > i /\ ~EntryFinished(j) /\ j \notin fetched

\* C2: a status fetch answered 429 ends the range loop of the tick without
\* fetching another entry, changes no snapshot, last-observed status or
\* finished flag, does not make the call return, and the loop goes on to wait
\* for the next tick.
C2_RateLimitSkipsTick ==
    [][/\ (IsFetchStep /\ resp' = RateLimitedError)
          => /\ builds' = builds
             /\ lastBuildStatus' = lastBuildStatus
             /\ finishedBuilds' = finishedBuilds
             /\ finishedBuildsCount' = finishedBuildsCount
             /\ pc' = "poll"
             /\ i' > Len(builds)
       /\ (pc = "poll" /\ i > Len(builds) /\ resp = RateLimitedError)
          => /\ pc' = "wait"
             /\ fetches' = fetches
             /\ result' = result]_vars

C2_Witness ==
    /\ pc = "wait"
    /\ resp = RateLimitedError
    /\ \E j \in Watched : ~EntryFinished(j) /\ j \notin fetched
    /\ \E j \in Watched : j \in fetched

\* The scripted run of C3: one watched build, 429 in tick 1, 200 "success" in
\* tick 2.
C3_Script ==
    /\ Len(builds) = 1
    /\ ticks = 2
    /\ rateLimited = 1
    /\ resp = NoError
    /\ builds[1].Status = "success"

\* C3 as stated: in the scripted run exactly one transition notification (to
\* "success") is emitted, the call returns nil and 2 status fetches were
\* issued.
C3_Original ==
    C3_Script
    => /\ notified = 1
       /\ fetches = 2
       /\ pc \in {"poll", "done"}
       /\ pc = "poll"
          => /\ Len(out) >= 1
             /\ out[1].kind = "changed"
             /\ out[1].to = "success"
       /\ pc = "done" => result = NoError

\* C3 amended: the notification is printed when the output format of the
\* context is Human (none is printed in the other formats); in every format
\* the call returns nil after exactly 2 status fetches.
C3_ScriptedRun ==
    C3_Script
    => /\ notified = (IF outputFormat = OutputFormat_Human THEN 1 ELSE 0)
       /\ fetches = 2
       /\ pc \in {"poll", "done"}
       /\ (pc = "poll" /\ outputFormat = OutputFormat_Human)
          => /\ Len(out) = 2
             /\ out[1].kind = "changed"
             /\ out[1].to = "success"
             /\ out[1].from # "success"
       /\ pc = "done" => result = NoError

C3_Witness ==
    /\ C3_Script
    /\ pc = "done"
    /\ outputFormat = OutputFormat_Human
    /\ notified = 1

\* C4: a poll-loop status fetch that fails with an error other than
\* RateLimited (404, a server error, a transport error) makes the call return
\* that error at once, with the failing entry and the entries after it left
\* unfinished and unfetched.
C4_FetchErrorIsFatal ==
    (ticks >= 1 /\ resp.kind \in {"ResourceNotFound", "HTTP", "Transport"})
    => /\ pc = "done"
       /\ result = resp
       /\ i \in Watched
       /\ ~EntryFinished(i)
       /\ \A j \in fetched : j <= i

C4_Witness ==
    /\ pc = "done"
    /\ result = ResourceNotFoundError
    /\ ticks >= 1
    /\ \E j \in Watched : j > i /\ ~EntryFinished(j)

\* C5: asked for one build (target and number, or the latest of a target)
\* whose status is terminal, the call returns the "is not active" error
\* naming the build before the first tick: no tick, no poll-loop fetch.
C5_TerminalBuildRejected ==
    (/\ ~all
     /\ Len(builds) >= 1
     /\ ticks = 0
     /\ builds[1].Status \in TerminalStatuses)
    => /\ pc = "done"
       /\ result.kind = "NotActive"
       /\ result.target = builds[1].TargetId
       /\ result.number = builds[1].Number
       /\ fetches = 0

C5_Witness ==
    /\ ~all
    /\ pc = "done"
    /\ result.kind = "NotActive"
    /\ builds[1].Status = "unknown"

\* C6: when the poll loop has ended with every entry finished, the call
\* returns nil iff every final status is "success", and otherwise the error
\* naming the first build, in the order of the watch set, that is not.
C6_FinalResult ==
    (/\ pc = "done"
     /\ ticks >= 1
     /\ \A k \in Watched : EntryFinished(k)
     /\ result.kind # "AbortEarly")
    => /\ (result = NoError) <=> (\A k \in Watched : builds[k].Status = "success")
       /\ result # NoError
          => \E k \in Watched :
                /\ builds[k].Status # "success"
                /\ \A j \in 1..(k - 1) : builds[j].Status = "success"
                /\ result.kind = "Failed"
                /\ result.target = builds[k].TargetId
                /\ result.number = builds[k].Number

C6_Witness ==
    /\ pc = "done"
    /\ result.kind = "Failed"
    /\ Len(builds) >= 2
    /\ builds[1].Status # "success"
    /\ builds[2].Status # "success"
    /\ builds[1].TargetId # builds[2].TargetId

\* C7: without abortOnFail and without a fetch error other than RateLimited,
\* the call returns only when every watched entry is finished, and it never
\* waits for another tick once every entry is finished.
C7_WaitsForAll ==
    /\ (/\ ~abortOnFail
        /\ pc = "done"
        /\ ticks >= 1
        /\ resp \in {NoError, RateLimitedError})
       => /\ \A k \in Watched : EntryFinished(k)
          /\ result.kind \in {"nil", "Failed"}
    /\ (pc = "wait" /\ ticks >= 1) => \E k \in Watched : ~EntryFinished(k)

C7_Witness ==
    /\ ~abortOnFail
    /\ pc = "done"
    /\ ticks = 2
    /\ Len(builds) >= 2
    /\ builds[1].Status = "failure"
    /\ builds[2].Status = "success"
    /\ 1 \notin fetched
    /\ 2 \in fetched

\* C8: a finished flag that is set stays set; a status fetch is only ever
\* issued for an entry that is not finished and was not fetched before in the
\* same tick.
C8_FinishedIsFinal ==
    [][/\ \A id \in DOMAIN finishedBuilds :
             finishedBuilds[id] => (id \in DOMAIN finishedBuilds' /\ finishedBuilds'[id])
       /\ fetches' # fetches
          => /\ IsFetchStep
             /\ i \in Watched
             /\ ~EntryFinished(i)
             /\ i \notin fetched]_vars

C8_Witness ==
    /\ ticks = 2
    /\ pc = "poll"
    /\ \E k \in Watched : EntryFinished(k) /\ k < i /\ k \notin fetched
    /\ fetched # {}

\* C9 as stated: every successful poll-loop fetch whose status differs from
\* the last one observed prints a transition line (old to new) and updates
\* the last-observed status, in every output format; none is printed when the
\* status is unchanged.
C9_Original ==
    [][(IsFetchStep /\ resp' = NoError)
       => LET id == UniqueId(builds[i])
              old == lastBuildStatus[id]
              new == builds'[i].Status
          IN  /\ lastBuildStatus'[id] = new
              /\ old # new => HasChangedLine(out', builds'[i], old, new)
              /\ old = new => NoChangedLine(out')]_vars

\* C9 amended: the last-observed status is updated in every output format;
\* the transition line is printed exactly when the status changed and the
\* output format of the context is Human.
C9_TransitionReported ==
    [][(IsFetchStep /\ resp' = NoError)
       => LET id == UniqueId(builds[i])
              old == lastBuildStatus[id]
              new == builds'[i].Status
          IN  /\ lastBuildStatus'[id] = new
              /\ (old # new /\ outputFormat = OutputFormat_Human)
                 => /\ HasChangedLine(out', builds'[i], old, new)
                    /\ notified' = notified + 1
              /\ (old = new \/ outputFormat # OutputFormat_Human)
                 => /\ NoChangedLine(out')
                    /\ notified' = notified]_vars

C9_Witness ==
    /\ pc = "poll"
    /\ resp = NoError
    /\ outputFormat = OutputFormat_Human
    /\ Len(out) = 1
    /\ out[1].kind = "changed"
    /\ out[1].from = "queued"
    /\ out[1].to = "started"

\* C10: a build counts as not active exactly in the statuses success,
\* failure, canceled and unknown: a watched build in one of these is either
\* rejected as "not active" or marked finished, and a build in any other
\* status (the empty and the unrecognised string included) is neither.
C10_TerminalStatuses ==
    \A k \in Watched :
        (builds[k].Status \in TerminalStatuses)
        <=> (\/ EntryFinished(k)
             \/ (pc = "done" /\ result.kind = "NotActive" /\ ticks = 0))

C10_Witness ==
    /\ Len(builds) = 1
    /\ fetches = 2
    /\ resp = NoError
    /\ builds[1].Status \in {"archived", ""}
    /\ ~EntryFinished(1)
    /\ pc = "wait"

\* ------------------------------------------------------------- Builds_Download
\* The three transfer failures of grabHttpFile.
TransferFailed == dlXfer \in {"neterr", "status", "copyerr"}

\* C11: when the transfer fails (non-200 status, or an I/O error while
\* copying), no file is left at the path being written once Builds_Download
\* has returned: the final path without unzip, the temporary path with it.
C11_NoFileAfterFailedTransfer ==
    (dlPc = "returned" /\ TransferFailed) => dlFile \notin files

\* C12: with unzip, on every return path after the temporary archive was
\* created (transfer failure, sync failure, archive open failure, extraction
\* failure, success) the temporary archive is gone when the call returns.
C12_TempArchiveRemoved ==
    (dlPc = "returned" /\ dlIn.unzip /\ dlFile # NoPath) => dlFile \notin files

\* The build found carries a primary download link.
HasLink == "DownloadPrimary" \in DOMAIN dlBuild /\ ~dlBuild.DownloadPrimary.nil

\* The spellings of the archive type, whatever the case of the letters.
ZipSpellings == {"zip", "ZIP", "Zip"}

\* The call has returned an error of this kind with no transfer made and no
\* local file created.
RejectedEarly(kind) ==
    /\ dlPc = "returned"
    /\ dlResult.kind = kind
    /\ dlTransfers = 0
    /\ files = {}
    /\ dlFile = NoPath

\* C13: Builds_Download returns an error of its own, without any transfer and
\* without creating a local file, when the status of the build is not
\* "success", when the build has no primary download link, and when unzip is
\* asked for and the file type of the link is not zip in any letter case; a
\* build that passes the three checks gets none of the three errors.
C13_PreconditionErrors ==
    dlBuild # NilBuild =>
        /\ dlBuild.Status # "success" => RejectedEarly("CannotDownload")
        /\ (dlBuild.Status = "success" /\ ~HasLink) => RejectedEarly("MissingDownloadLink")
        /\ (dlBuild.Status = "success" /\ HasLink /\ dlIn.unzip
               /\ dlBuild.DownloadPrimary.Type \notin ZipSpellings)
             => RejectedEarly("CannotUnzip")
        /\ (dlBuild.Status = "success" /\ HasLink
               /\ (dlIn.unzip => dlBuild.DownloadPrimary.Type \in ZipSpellings))
             => dlResult.kind \notin {"CannotDownload", "MissingDownloadLink", "CannotUnzip"}

\* A link of type "ZIP" passed the checks with unzip, and one of type "apk"
\* was rejected.
C13_Witness ==
    \/ /\ dlIn.unzip /\ HasLink /\ dlBuild.Status = "success"
       /\ dlBuild.DownloadPrimary.Type = "ZIP"
       /\ dlPc = "resolved"
    \/ RejectedEarly("CannotUnzip") /\ dlResult.status = "apk"

\* The checks on the build have passed and the output directory was looked at.
PastDirCheck ==
    \/ dlPc \in {"checked", "named", "created", "downloaded", "synced", "extract",
                 "returning", "panic"}
    \/ /\ dlPc = "returned"
       /\ dlResult.kind \notin {"NoSuccessfulBuild", "CannotDownload",
                                "MissingDownloadLink", "CannotUnzip"}

\* C14: when the destination does not exist or is not a directory,
\* Builds_Download returns an error before any transfer and before any file is
\* created; an empty destination means the current directory ".".
C14_DirectoryChecked ==
    PastDirCheck =>
        /\ dlDir = (IF dlIn.outputDir = "" THEN "." ELSE dlIn.outputDir)
        /\ dlIn.stat \in {"missing", "notdir"} =>
             RejectedEarly("NotADirectory") /\ dlResult.status = dlDir
        /\ (dlFile # NoPath /\ ~dlIn.unzip) => dlFile.dir = dlDir

\* An empty destination that is not a directory was rejected, naming ".".
C14_Witness ==
    /\ dlIn.outputDir = ""
    /\ dlIn.stat = "notdir"
    /\ RejectedEarly("NotADirectory")
    /\ dlResult.status = "."

\* The response-content-disposition parameter of the link carries a filename.
CarriesFilename(d) ==
    d.mediatype # "" /\ d.wellformed /\ "filename" \in DOMAIN d.params

\* C15: the output file name is the filename of the response-content-disposition
\* query parameter of the link when it carries one; in every other case
\* (missing, unparsable, parsed without a filename) it is the base name of the
\* path of the URL.
C15_OutputFilename ==
    dlPc = "named" =>
        LET href == dlBuild.DownloadPrimary.Href
        IN  dlFilename = IF CarriesFilename(href.disposition)
                         THEN href.disposition.params["filename"]
                         ELSE href.path[Len(href.path)]

\* --------------------------------------------------------------- Builds_Latest
\* The call has returned a map.
LtReturnedMap == ltPc = "returned" /\ ~ltRet.nil

\* The target is among those the call was asked about.
Included(target) == ~ltIn.onlyEnabled \/ target.Enabled

\* The history request of the target was answered with at least one build.
HasHistory(id) == id \in DOMAIN ltHistory /\ ltHistory[id].entries # <<>>

\* C16: Builds_Latest(onlySuccess=false, onlyEnabled=true) issues no history
\* request for a disabled target and puts no entry for it in the result, and
\* for every enabled target with a history (in particular one whose most
\* recently attempted build is not its last successful build) the result holds
\* the most recently attempted build.
C16_DisabledTargetsLeftOut ==
    (ltPc \in {"pass1", "pass2", "returned"} /\ ~ltIn.onlySuccess /\ ltIn.onlyEnabled) =>
        \A k \in 1..Len(ltTargets) :
            LET target == ltTargets[k]
            IN  /\ ~target.Enabled =>
                     /\ target.Id \notin ltRequested
                     /\ target.Id \notin DOMAIN ltBuilds
                     /\ LtReturnedMap => target.Id \notin DOMAIN ltRet.builds
                /\ (target.Enabled /\ LtReturnedMap /\ HasHistory(target.Id)) =>
                     ltRet.builds[target.Id] = ltHistory[target.Id].entries[1]

\* A map was returned for a disabled target and an enabled one whose most
\* recent attempt is not its last successful build.
C16_Witness ==
    /\ LtReturnedMap
    /\ ~ltIn.onlySuccess
    /\ ltIn.onlyEnabled
    /\ \E k \in 1..Len(ltTargets) : ~ltTargets[k].Enabled
    /\ \E k \in 1..Len(ltTargets) :
         /\ ltTargets[k].Enabled
         /\ ltTargets[k].Builds # <<>>
         /\ HasHistory(ltTargets[k].Id)
         /\ ltHistory[ltTargets[k].Id].entries[1] # ltTargets[k].Builds[1]
         /\ ltRet.builds[ltTargets[k].Id] = ltHistory[ltTargets[k].Id].entries[1]

\* C17: the map returned by Builds_Latest has a key for every included target
\* (every target, or every enabled one with onlyEnabled) and no other key, and
\* the value of a key is nil exactly when no build was found for the target in
\* any pass that ran.
C17_OneKeyPerIncludedTarget ==
    LtReturnedMap =>
        /\ DOMAIN ltRet.builds =
             {ltTargets[k].Id : k \in {j \in 1..Len(ltTargets) : Included(ltTargets[j])}}
        /\ \A k \in 1..Len(ltTargets) :
             Included(ltTargets[k]) =>
                 (ltRet.builds[ltTargets[k].Id] = NilBuild
                    <=> /\ ltTargets[k].Builds = <<>>
                        /\ ltIn.onlySuccess \/ ~HasHistory(ltTargets[k].Id))

\* After both passes a map was returned with a nil value for a target without
\* any build, and with a target left out.
C17_Witness ==
    /\ LtReturnedMap
    /\ ~ltIn.onlySuccess
    /\ \E k \in 1..Len(ltTargets) : ~Included(ltTargets[k])
    /\ \E t \in DOMAIN ltRet.builds : ltRet.builds[t] = NilBuild /\ t \in ltRequested

\* C18: in Builds_Latest with onlySuccess=false a ResourceNotFound (404)
\* answer to the history request of one target counts as "no build" for that
\* target: the call does not abort and still returns the other entries.
C18_NotFoundIsNoBuild ==
    (/\ ltPc = "returned"
     /\ \E t \in DOMAIN ltHistory : ltHistory[t].err = ResourceNotFoundError)
        => /\ ~ltRet.nil
           /\ ltRet.err = NoError

\* --------------------------------------------------------- Git_BuildsMatchHead
\* The build is a successful build of the revision of HEAD, the whole string.
Matches(b) == b.Status = "success" /\ b.LastBuiltRevision = gitHead

\* The kinds of the lines printed so far.
LastLineKind(lines) == IF lines = <<>> THEN "" ELSE lines[Len(lines)].kind

\* C19: in Git_BuildsMatchHead a build matches if and only if its status is
\* "success" and its LastBuiltRevision equals the revision of HEAD as a whole
\* string (no prefix matching); a build that is not successful never matches.
\* A round of the loop over the builds keeps allMatch when the build matches
\* and clears it when it does not, and the line it prints says the same.
C19_BuildMatches ==
    [][(gitPc = "builds" /\ gitIdx <= Len(gitBuilds) /\ gitPc' = "builds") =>
          LET b == gitBuilds[gitIdx]
          IN  /\ allMatch' = (allMatch /\ Matches(b))
              /\ b.Status # "success" => ~allMatch'
              /\ gitIn.outputFormat = OutputFormat_Human =>
                   (LastLineKind(gitOut') = "matches" <=> Matches(b))]_allVars

\* A successful build whose revision is the first eight characters of HEAD
\* was examined and found not to match.
C19_Witness ==
    /\ gitPc = "returned"
    /\ gitIn.outputFormat = OutputFormat_Human
    /\ Len(gitBuilds) = 1
    /\ gitMissing = <<>>
    /\ gitBuilds[1].Status = "success"
    /\ Len(gitBuilds[1].LastBuiltRevision) = PrefixLen
    /\ gitBuilds[1].LastBuiltRevision = SubSeq(gitHead, 1, PrefixLen)
    /\ ~gitRet.matches

RemovalIsNext ==
    /\ dlPc = "returning"
    /\ defers # <<>>
    /\ defers[Len(defers)] = "os.Remove"

\* C25: in Builds_Download the removal of the downloaded file (the partial
\* file after a failed transfer, the temporary archive with unzip) takes place
\* after the handle of the file has been closed by file.Close(), never while
\* the handle is still open.
C25_RemovalAfterClose == RemovalIsNext => "file" \notin handles

\* C30: when os.Stat of the destination fails with an error other than
\* not-exists, Builds_Download returns the error "Error stat'ing directory"
\* instead of crashing, with no transfer attempted and no file created.
C30_StatErrorReturned ==
    (PastDirCheck /\ dlIn.stat = "denied") => RejectedEarly("ErrorStatingDirectory")

\* -------------------------------------- Git_BuildsMatchHead, one target
\* The call was made for the latest build of one named target.
SingleTargetLatest == ~gitIn.all /\ gitIn.buildNumber <= 0

\* C29: for one target without a build number Git_BuildsMatchHead returns
\* true only if a latest successful build of the named target was found and
\* its revision equals HEAD; when the target is absent from the latest-builds
\* map the result is not true.
C29_AbsentTargetNotTrue ==
    (gitPc = "returned" /\ gitRet.err = NoError /\ SingleTargetLatest /\ gitRet.matches) =>
        /\ Len(gitBuilds) = 1
        /\ gitBuilds[1].TargetId = gitIn.buildTargetId
        /\ Matches(gitBuilds[1])

\* ------------------------------------------ Builds_WaitForComplete, counters
\* The watched entries whose finished flag is set.
FinishedEntries == {k \in Watched : EntryFinished(k)}

\* C27: in every state of the poll loop of Builds_WaitForComplete,
\* finishedBuildsCount is the number of watched entries whose finished flag is
\* true and never exceeds the number of watched builds, so that the exit test
\* finishedBuildsCount == len(builds) holds exactly when every watched entry
\* is finished.
C27_CountMatchesFlags ==
    pc \in {"wait", "poll", "done"} =>
        /\ finishedBuildsCount = Cardinality(FinishedEntries)
        /\ finishedBuildsCount <= Len(builds)
        /\ (finishedBuildsCount = Len(builds)) <=> (\A k \in Watched : EntryFinished(k))

\* Between two ticks one of two watched entries is finished and counted.
C27_Witness ==
    /\ pc = "wait"
    /\ Len(builds) = 2
    /\ Cardinality(FinishedEntries) = 1
    /\ finishedBuildsCount = 1

\* --------------------------------- Builds_WaitForComplete, empty watch set
\* The call has returned "No builds found" and the poll loop was not entered.
NoBuildsFound ==
    /\ pc = "done"
    /\ result.kind = "NoBuildsFound"
    /\ builds = <<>>
    /\ ticks = 0
    /\ fetches = 0

\* The map has no active build: every target in it has no build or a build
\* in a terminal status.
NothingActive(m) ==
    \A t \in DOMAIN m : m[t] = NilBuild \/ m[t].Status \in TerminalStatuses

\* C28: Builds_WaitForComplete returns "No builds found" without entering the
\* poll loop whenever the watch set it collected is empty: with all=true when
\* no enabled target's latest build is active (terminal latest builds are left
\* out of the watch set, not rejected), and for one target when the target is
\* absent from the latest-builds map or has never been built.
C28_EmptyWatchSet ==
    (pc # "start" /\ latestBuilds.known) =>
        /\ builds = <<>> => NoBuildsFound
        /\ all => /\ NothingActive(latestBuilds.map) => NoBuildsFound
                  /\ result.kind # "NotActive"
                  /\ \A k \in Watched : builds[k].Status \notin TerminalStatuses
        /\ (/\ ~all
            /\ \/ buildTargetId \notin DOMAIN latestBuilds.map
               \/ latestBuilds.map[buildTargetId] = NilBuild)
           => NoBuildsFound

\* With all=true the only build of the map is a terminal one, and the call
\* has returned "No builds found".
C28_Witness ==
    /\ all
    /\ latestBuilds.known
    /\ \E t \in DOMAIN latestBuilds.map :
         /\ latestBuilds.map[t] # NilBuild
         /\ latestBuilds.map[t].Status = "failure"
    /\ NoBuildsFound

\* ------------------------------------------------------------------- C26
\* The k-th watched entry has just been fetched with a decoded answer: the
\* range loop stands right behind it, or has returned from it (abort).
FetchedOK(k) ==
    /\ k \in fetched
    /\ resp = NoError
    /\ \/ i = k + 1
       \/ i = k /\ pc = "done" /\ result.kind = "AbortEarly"

AbortedEarly == pc = "done" /\ result.kind = "AbortEarly"

\* C26 as stated: under a service that lets every watched build reach a
\* terminal status, fails no fetch except by rate limiting and stops rate
\* limiting after a while, Builds_WaitForComplete eventually returns, and
\* every unfinished entry of the watch set, whatever its position, is
\* eventually fetched successfully.
C26_Original ==
    /\ (pc = "wait") ~> (pc = "done")
    /\ \A k \in 1..NumTargets :
          (pc = "wait" /\ k \in Watched /\ ~EntryFinished(k)) ~> (k \in Watched /\ FetchedOK(k))

\* C26, amended: under the same service Builds_WaitForComplete eventually
\* returns, and every unfinished entry of the watch set, whatever its
\* position, is eventually fetched successfully unless the call returns
\* before that with the abort-on-fail error of another entry.
C26_EventuallyReturns ==
    /\ (pc = "wait") ~> (pc = "done")
    /\ \A k \in 1..NumTargets :
          (pc = "wait" /\ k \in Watched /\ ~EntryFinished(k))
              ~> ((k \in Watched /\ FetchedOK(k)) \/ AbortedEarly)

\* The second entry, skipped by the break of a rate-limited tick, is fetched
\* successfully in a later tick.
C26_Witness ==
    /\ Len(builds) = 2
    /\ rateLimited >= 1
    /\ FetchedOK(2)

\* ------------------------------------------------------------------- C23
\* The errors of Builds_Download that are about the build it found.
AboutTheBuild == {"CannotDownload", "MissingDownloadLink", "CannotUnzip"}

\* C23: every error that Builds_Download returns about one specific build
\* (its status, its missing link, its file type) contains the target id and
\* the number of that build.
C23_ErrorsNameBuild ==
    (dlPc = "returned" /\ dlResult.kind \in AboutTheBuild)
        => /\ dlResult.target = dlBuild.TargetId
           /\ dlResult.number = dlBuild.Number

\* ------------------------------------------------------------------- C21
\* The platform parameter the built request carries.
SendsPlatform(name) ==
    /\ callReq.built
    /\ callReq.platform = [has |-> TRUE, val |-> name]

\* C21: Builds_List resolves the platform filter through the alias table
\* before anything is sent: "win64" goes out as "standalonewindows64", a
\* canonical platform name goes out as itself, and a filter that is not in
\* the table ("ps5") ends the call locally, no request being built or sent.
C21_PlatformResolved ==
    (callIn.op = "list" /\ callPc # "start")
        => LET f == callIn.filterPlatform
           IN  /\ f = "win64" => SendsPlatform("standalonewindows64")
               /\ f \in validPlatforms => SendsPlatform(f)
               /\ (f # "" /\ f \notin DOMAIN platformShorthand)
                     => /\ callPc = "exit"
                        /\ callReq = NoRequest
               /\ callReq.sent => (f = "" \/ f \in DOMAIN platformShorthand)

\* A list request filtered by "win64" was sent with the canonical name.
C21_Witness ==
    /\ callIn.op = "list"
    /\ callIn.filterPlatform = "win64"
    /\ callReq.sent
    /\ callReq.platform.val = "standalonewindows64"

\* ------------------------------------------------------------------- C22
\* doRequest has classified an answer that came with a status code.
Classified ==
    /\ callPc \in {"returned", "exit"}
    /\ callReq.sent
    /\ ~callResp.neterr

\* The outcomes that depend on the status code alone.
ByCodeAlone ==
    LET c == callResp.code
    IN  /\ c = 429 => callDo.err = RateLimitedError
        /\ c = 404 => callDo.err = ResourceNotFoundError
        /\ c = 204 => callDo.err = NoError /\ callDo.result = <<>>
        /\ c \notin {200, 202, 204, 404, 429}
              => /\ callDo.err.kind = "HTTP"
                 /\ callDo.err.code = c
                 /\ callDo.message.code = c
                 /\ callDo.message.text = IF callResp.body.kind = "error"
                                          THEN callResp.body.error ELSE ""

\* The caller passed a result to decode into (Builds_List does, Builds_Cancel
\* passes nil).
HasResult == callIn.op = "list"

\* C22 as stated: doRequest classifies a response by its status code alone;
\* 200 and 202 give success with the body decoded into the caller's result,
\* 204 success without payload, 404 ResourceNotFoundError, 429
\* RateLimitedError, any other status a failure whose message embeds the
\* status code and the decoded error text (empty when the body cannot be
\* decoded).
C22_Original ==
    Classified
        => /\ ByCodeAlone
           /\ callResp.code \in {200, 202}
                 => /\ callDo.err = NoError
                    /\ HasResult => callDo.result = callResp.body.builds

\* C22, amended: as above, except that for 200 and 202 the body decides too:
\* with a result to decode into, success needs the body to decode, and a body
\* that does not decode ends the process in log.Fatal; without a result the
\* body is not decoded at all.
C22_Classified ==
    Classified
        => /\ ByCodeAlone
           /\ callResp.code \in {200, 202}
                 => IF ~HasResult
                    THEN callDo.err = NoError /\ callDo.result = <<>>
                    ELSE IF callResp.body.kind = "builds"
                    THEN callDo.err = NoError /\ callDo.result = callResp.body.builds
                    ELSE callDo.err = FatalExit /\ callPc = "exit"

\* A 200 answer whose body is no list of builds has ended the process.
C22_Witness ==
    /\ Classified
    /\ HasResult
    /\ callResp.code = 200
    /\ callResp.body.kind = "garbage"
    /\ callPc = "exit"

\* ------------------------------------------------------------------- C24
\* The core operation of the command returned an error.
CoreError ==
    \/ pc = "done" /\ result # NoError
    \/ gitPc = "returned" /\ gitRet.err # NoError
    \/ callPc = "returned" /\ callRet.err # NoError

\* Git_BuildsMatchHead returned false.
Mismatch == gitPc = "returned" /\ gitRet.err = NoError /\ ~gitRet.matches

\* wait-for-complete ended with a watched build in a terminal status other
\* than success.
WatchedFailed ==
    /\ pc \in {"done", "exit"}
    /\ \E k \in Watched : builds[k].Status \in TerminalStatuses \ {"success"}

\* C24: the process exits with a non-zero code whenever the core operation
\* of the command returned an error, whenever build-matches-head found a
\* mismatch, and whenever wait-for-complete ended with a watched build in a
\* terminal status other than success; it exits with zero only when none of
\* these happened.
C24_ExitCodes ==
    exitCode # Running
        => /\ CoreError => exitCode # 0
           /\ Mismatch => exitCode # 0
           /\ WatchedFailed => exitCode # 0
           /\ exitCode = 0 => ~(CoreError \/ Mismatch \/ WatchedFailed)

\* build-matches-head found a mismatch and the process has exited.
C24_Witness ==
    /\ Mismatch
    /\ exitCode = 1

====
